---- MODULE Spec2Model ----
(***************************************************************************)
(* The search engine of the constraint solver (lib/Sema/CSSolver.cpp):     *)
(* simplification to a fixed point, decomposition into connected           *)
(* components, binding enumeration, disjunction branching, solver scopes   *)
(* and solution composition, as a state machine with an explicit call      *)
(* stack.  The solver runs with a constraint graph (CG non-null).          *)
(*                                                                         *)
(* Types are strings.  The collaborators of the file that live elsewhere   *)
(* in the repository (the per-constraint simplifier, the substitution      *)
(* store, the constraint graph, the ranking of solutions) are modelled     *)
(* from the specification over a small closed universe of types.           *)
(***************************************************************************)
EXTENDS Integers, Sequences, FiniteSets, TLC

\* The largest number of top-level constraints of an input system.
MaxConstraints == 3

None == "none"

-----------------------------------------------------------------------------
(* Types *)

\* The type variables created by the front end, and the one variable that
\* opening the generic literal default creates.
InputTypeVars == {"$0", "$1", "$2"}
FreshTypeVar == "$3"
AllTypeVars == InputTypeVars \cup {FreshTypeVar}

\* GenericTypeParamType::get(0, index, ...)
GenericParam(index) == "T" \o ToString(index)
GenericParams == {GenericParam(i) : i \in 0..3}

NominalTypes == {"Int", "Double", "String", "Sub", "Super", "Int?"}
ElementTypes == AllTypeVars \cup GenericParams \cup {"Int"}
ArrayOf(t) == "Array<" \o t \o ">"
ArrayTypes == {ArrayOf(t) : t \in ElementTypes}

\* Integer is a type alias of Int: sugar that TypeBase::getCanonicalType
\* strips.  Every other type of the universe is canonical.
getCanonicalType(t) == IF t = "Integer" THEN "Int" ELSE t

isTypeVariable(t) == t \in AllTypeVars

\* The types a tuple element or an l-value can have.
ObjectTypes == AllTypeVars \cup NominalTypes \cup {"Integer"}

\* A single-element, non-variadic labelled tuple; an implicit l-value.
TupleOf(t) == "(x: " \o t \o ")"
TupleTypes == {TupleOf(t) : t \in ObjectTypes}
LValueOf(t) == "@lvalue " \o t
LValueTypes == {LValueOf(t) : t \in ObjectTypes}

ElementOf(t) == CHOOSE e \in ElementTypes : ArrayOf(e) = t
getElementType(t) ==
  IF t \in TupleTypes THEN CHOOSE e \in ObjectTypes : TupleOf(e) = t ELSE None
getRValueType(t) ==
  IF t \in LValueTypes THEN CHOOSE e \in ObjectTypes : LValueOf(e) = t ELSE t

\* Type::getTypeVariables
getTypeVariables(t) ==
  IF t \in ObjectTypes THEN {t} \cap AllTypeVars
  ELSE {v \in AllTypeVars : t \in {ArrayOf(v), TupleOf(v), LValueOf(v)}}

hasTypeVariable(t) == getTypeVariables(t) # {}

\* The class hierarchy behind TypeChecker::getSuperClassOf.
getSuperClassOf(t) == IF t = "Sub" THEN "Super" ELSE None

\* T converts to Optional<T> under the ValueToOptional restriction.
OptionalOf(t) == IF t = "Int" THEN "Int?" ELSE None

\* The types that conform to each protocol.
Conformers(proto) ==
  CASE proto = "IntegerLiteral" -> {"Int", "Double"}
    [] proto = "ArrayLiteral" -> ArrayTypes
    [] proto = "Printable" -> {"Int", "String", "Super"}
    [] OTHER -> {}

-----------------------------------------------------------------------------
(* Score *)

\* A score is a tuple of counters compared lexicographically:
\* <<non-default literals, value-to-optional conversions>>.
ZeroScore == <<0, 0>>
ScoreAdd(a, b) == <<a[1] + b[1], a[2] + b[2]>>
ScoreSub(a, b) == <<a[1] - b[1], a[2] - b[2]>>
ScoreLess(a, b) == a[1] < b[1] \/ (a[1] = b[1] /\ a[2] < b[2])
ScoreLeq(a, b) == a = b \/ ScoreLess(a, b)

-----------------------------------------------------------------------------
(* Substitution store.  s is the constraint system: a record of its fields. *)

getRepresentative(s, v) == s.store[v].rep

getFixedType(s, v) == s.store[getRepresentative(s, v)].fixed

RECURSIVE simplifyType(_, _)
simplifyType(s, t) ==
  IF isTypeVariable(t)
  THEN IF getFixedType(s, t) # None
       THEN simplifyType(s, getFixedType(s, t))
       ELSE getRepresentative(s, t)
  ELSE IF getTypeVariables(t) = {} THEN t
  ELSE LET x == simplifyType(s, CHOOSE v \in getTypeVariables(t) : TRUE)
       IN CASE t \in ArrayTypes -> ArrayOf(x)
            [] t \in TupleTypes -> TupleOf(x)
            [] OTHER -> LValueOf(x)

\* The type variables a constraint mentions (Constraint::getTypeVariables).
RECURSIVE ConstraintTypeVars(_)
ConstraintTypeVars(c) ==
  IF c.kind \in {"Disjunction", "Conjunction"}
  THEN UNION {ConstraintTypeVars(c.nested[i]) : i \in 1..Len(c.nested)}
  ELSE getTypeVariables(c.first) \cup
       (IF c.kind = "ConformsTo" THEN {} ELSE getTypeVariables(c.second))

\* The type variables left in the operands of a constraint once the fixed
\* types of the bound variables are substituted.
RECURSIVE MentionedTypeVars(_, _)
MentionedTypeVars(s, c) ==
  IF c.kind \in {"Disjunction", "Conjunction"}
  THEN UNION {MentionedTypeVars(s, c.nested[i]) : i \in 1..Len(c.nested)}
  ELSE getTypeVariables(simplifyType(s, c.first)) \cup
       (IF c.kind = "ConformsTo" THEN {}
        ELSE getTypeVariables(simplifyType(s, c.second)))

\* ConstraintGraph: the constraints of the graph that touch the class of v,
\* directly or through the fixed type of a variable they mention.
Adjacent(s, c, v) ==
  \E w \in ConstraintTypeVars(c) \cup MentionedTypeVars(s, c) :
     getRepresentative(s, w) = getRepresentative(s, v)

\* addTypeVariableConstraintsToWorkList: the inactive constraints of the
\* graph adjacent to v become active and join the worklist.
ActivateDependents(s, v) ==
  LET woken == SelectSeq(s.CG, LAMBDA c : Adjacent(s, c, v) /\ c \notin s.active)
  IN [s EXCEPT !.Worklist = s.Worklist \o woken,
               !.active = s.active \cup {woken[i] : i \in 1..Len(woken)}]

\* Binding a variable to one of these types counts as a non-default literal.
NonDefaultLiteralTypes == {"Double"}

\* assignFixedType(typeVar, type, updateScore): the representative is fixed,
\* the change is journaled, the score is charged when updateScore is set,
\* and the constraints that depend on the variable are woken.
assignFixedType(s, v, t, updateScore) ==
  LET r == getRepresentative(s, v)
      s1 == [s EXCEPT !.savedBindings = Append(s.savedBindings,
                                               [tv |-> r, prior |-> s.store[r]]),
                      !.store[r].fixed = t,
                      !.CurrentScore =
                         IF updateScore /\ getCanonicalType(t) \in NonDefaultLiteralTypes
                         THEN ScoreAdd(s.CurrentScore, <<1, 0>>)
                         ELSE s.CurrentScore]
  IN ActivateDependents(s1, r)

\* The order in which the members of a class are redirected.
VarOrder == <<"$0", "$1", "$2", "$3">>

RECURSIVE Redirect(_, _, _, _)
Redirect(s, from, to, i) ==
  IF i > Len(VarOrder) THEN s
  ELSE LET v == VarOrder[i]
       IN IF s.store[v].rep = from
          THEN Redirect([s EXCEPT !.savedBindings =
                                     Append(s.savedBindings,
                                            [tv |-> v, prior |-> s.store[v]]),
                                  !.store[v].rep = to],
                        from, to, i + 1)
          ELSE Redirect(s, from, to, i + 1)

\* mergeEquivalenceClasses: every member of the class of b takes the
\* representative of a; each change is journaled.
mergeEquivalenceClasses(s, a, b) ==
  LET ra == getRepresentative(s, a)
      rb == getRepresentative(s, b)
  IN IF ra = rb THEN s
     ELSE ActivateDependents(Redirect(s, rb, ra, 1), ra)

-----------------------------------------------------------------------------
(* The per-constraint simplifier *)

Constraint(id, kind, first, second) ==
  [id |-> id, kind |-> kind, first |-> first, second |-> second,
   nested |-> <<>>, restriction |-> None, locator |-> None]

\* The subtype and conversion relation between two concrete types.  An
\* l-value is loaded; a scalar converts to the one-element tuple of its type.
Relates(kind, l, r) ==
  \/ getCanonicalType(getRValueType(l)) = getCanonicalType(r)
  \/ getSuperClassOf(getCanonicalType(l)) = getCanonicalType(r)
  \/ kind = "Conversion" /\ OptionalOf(getCanonicalType(l)) = getCanonicalType(r)
  \/ /\ kind = "Conversion"
     /\ r \in TupleTypes
     /\ getCanonicalType(l) = getCanonicalType(getElementType(r))

\* Bind, Equal: unify the two simplified types.
Unify(s, l, r) ==
  IF getCanonicalType(l) = getCanonicalType(r) THEN [kind |-> "Solved", s |-> s]
  ELSE IF isTypeVariable(l) /\ isTypeVariable(r)
  THEN [kind |-> "Solved", s |-> mergeEquivalenceClasses(s, l, r)]
  ELSE IF isTypeVariable(l)
  THEN IF l \in getTypeVariables(r) THEN [kind |-> "Error", s |-> s]
       ELSE [kind |-> "Solved", s |-> assignFixedType(s, l, r, TRUE)]
  ELSE IF isTypeVariable(r)
  THEN IF r \in getTypeVariables(l) THEN [kind |-> "Error", s |-> s]
       ELSE [kind |-> "Solved", s |-> assignFixedType(s, r, l, TRUE)]
  ELSE [kind |-> "Error", s |-> s]

\* The top scope's set is solverState->generatedConstraints.
RecordGenerated(s, c) ==
  IF s.scopes = <<>> THEN s
  ELSE [s EXCEPT !.scopes[Len(s.scopes)].generatedConstraints = @ \cup {c}]

RECURSIVE simplifyConstraint(_, _)
RECURSIVE SimplifyNested(_, _, _)

\* A conjunction: each nested constraint in turn; an unsolved one joins the
\* active list and the graph as a constraint generated in this scope.
SimplifyNested(s, cs, i) ==
  IF i > Len(cs) THEN [kind |-> "Solved", s |-> s]
  ELSE LET r == simplifyConstraint(s, cs[i])
       IN IF r.kind = "Error" THEN r
          ELSE IF r.kind = "Solved" THEN SimplifyNested(r.s, cs, i + 1)
          ELSE SimplifyNested(
                 RecordGenerated([r.s EXCEPT !.Constraints = Append(@, cs[i]),
                                              !.CG = Append(@, cs[i])], cs[i]),
                 cs, i + 1)

simplifyConstraint(s, c) ==
  LET l == IF c.kind \in {"Disjunction", "Conjunction"} THEN None
           ELSE simplifyType(s, c.first)
      r == IF c.kind \in {"Disjunction", "Conjunction", "ConformsTo"} THEN None
           ELSE simplifyType(s, c.second)
  IN CASE c.kind \in {"Bind", "Equal"} -> Unify(s, l, r)
       [] c.kind = "BindOverload" ->
            Unify([s EXCEPT !.resolvedOverloadSets =
                              Append(@, [locator |-> c.locator, choice |-> c.second])],
                  l, r)
       [] c.kind \in {"Subtype", "Conversion"} ->
            IF isTypeVariable(l) \/ isTypeVariable(r)
            THEN [kind |-> "Unsolved", s |-> s]
            ELSE IF c.kind = "Conversion" /\ l \notin TupleTypes
                    /\ isTypeVariable(getElementType(r))
            THEN [kind |-> "Unsolved", s |-> s]
            ELSE IF ~Relates(c.kind, l, r) THEN [kind |-> "Error", s |-> s]
            ELSE IF OptionalOf(getCanonicalType(l)) = getCanonicalType(r)
            THEN [kind |-> "Solved",
                  s |-> [s EXCEPT !.CurrentScore = ScoreAdd(@, <<0, 1>>),
                                  !.constraintRestrictions =
                                     Append(@, <<l, r, "ValueToOptional">>)]]
            ELSE [kind |-> "Solved", s |-> s]
       [] c.kind = "ConformsTo" ->
            IF isTypeVariable(l) THEN [kind |-> "Unsolved", s |-> s]
            ELSE IF getCanonicalType(l) \in Conformers(c.second)
            THEN [kind |-> "Solved", s |-> s]
            ELSE [kind |-> "Error", s |-> s]
       [] c.kind = "Conjunction" -> SimplifyNested(s, c.nested, 1)
       [] OTHER -> [kind |-> "Unsolved", s |-> s]

\* worseThanBestSolution(): a best score exists and the current score is
\* greater than or equal to it.
worseThanBestSolution(s) ==
  s.BestScore # <<>> /\ ~ScoreLess(s.CurrentScore, s.BestScore[1])

hasFreeTypeVariables(s) ==
  \E i \in 1..Len(s.TypeVariables) : getFixedType(s, s.TypeVariables[i]) = None

Remove(seq, c) == SelectSeq(seq, LAMBDA x : x # c)
ToSet(seq) == {seq[i] : i \in 1..Len(seq)}
Reverse(seq) == [i \in 1..Len(seq) |-> seq[Len(seq) + 1 - i]]

-----------------------------------------------------------------------------
(* simplify(), with a constraint graph *)

\* Lines 475-490 alone: the retired constraints are erased from the active
\* list and join no other list.
TransferRetiredErased(s, retired) ==
  [s EXCEPT !.Constraints = SelectSeq(@, LAMBDA c : c \notin retired)]

\* Lines 475-496: the retired constraints leave the active list, each one
\* spliced to the front of the retired list in list order.
TransferRetired(s, retired) ==
  LET gone == SelectSeq(s.Constraints, LAMBDA c : c \in retired)
  IN [s EXCEPT !.Constraints = SelectSeq(@, LAMBDA c : c \notin retired),
               !.retiredConstraints = Reverse(gone) \o @]

\* Lines 456-467 without lines 447-454: the constraints are retired and the
\* worklist is left as it is.
RetireAllKeepsWorklist(s) ==
  [s EXCEPT !.retiredConstraints = s.Constraints \o @,
            !.Constraints = <<>>]

\* Lines 447-467: a constraint failed; the worklist is drained, its items
\* marked inactive, and every active constraint is retired.
RetireAll(s) ==
  [s EXCEPT !.active = @ \ ToSet(s.Worklist),
            !.Worklist = <<>>,
            !.retiredConstraints = s.Constraints \o @,
            !.Constraints = <<>>]

\* Lines 421-441: the effect of one simplifier result on the system.
ApplyResult(s, c, kind) ==
  CASE kind = "Error" ->
         [s EXCEPT !.failedConstraint = IF @ = <<>> THEN <<c>> ELSE @]
    [] kind = "Solved" -> [s EXCEPT !.CG = Remove(@, c)]
    [] OTHER -> s

RECURSIVE SimplifyWorklist(_, _)

\* Lines 421-472 and the next turn of the loop: what follows the result r of
\* the simplifier for the constraint c taken from the worklist.
SimplifyNext(c, r, retired) ==
  LET s2 == [ApplyResult(r.s, c, r.kind) EXCEPT !.active = @ \ {c}]
      report == <<[constraint |-> c, kind |-> r.kind]>>
  IN IF s2.failedConstraint # <<>>
     THEN [failed |-> TRUE, s |-> RetireAll(s2), reports |-> report]
     ELSE IF worseThanBestSolution(s2)
     THEN [failed |-> TRUE, s |-> s2, reports |-> report]
     ELSE [SimplifyWorklist(s2, IF r.kind = "Solved"
                                THEN retired \cup {c} ELSE retired)
             EXCEPT !.reports = report \o @]

\* Lines 413-498.  The result carries, besides the system, the list of what
\* the simplifier reported for each constraint taken from the worklist.
SimplifyWorklist(s, retired) ==
  IF s.Worklist = <<>>
  THEN [failed |-> FALSE, s |-> TransferRetired(s, retired), reports |-> <<>>]
  ELSE SimplifyNext(Head(s.Worklist),
                    simplifyConstraint([s EXCEPT !.Worklist = Tail(@)],
                                       Head(s.Worklist)),
                    retired)

simplify(s) == SimplifyWorklist(s, {})

-----------------------------------------------------------------------------
(* SolverScope *)

\* SolverScope::SolverScope
EnterScope(s) ==
  [s EXCEPT !.scopes = Append(@,
     [resolvedOverloadSets |-> Len(s.resolvedOverloadSets),
      numTypeVariables |-> Len(s.TypeVariables),
      numSavedBindings |-> Len(s.savedBindings),
      firstRetired |-> Len(s.retiredConstraints),
      numConstraintRestrictions |-> Len(s.constraintRestrictions),
      generatedConstraints |-> {},
      PreviousScore |-> s.CurrentScore,
      CG |-> s.CG])]

truncate(vec, newSize) == SubSeq(vec, 1, newSize)

\* The last numBindings entries of the journal replayed oldest first.
RECURSIVE RestoreBindingsForward(_, _, _)
RestoreBindingsForward(store, saved, numBindings) ==
  IF numBindings = 0 THEN store
  ELSE LET e == saved[Len(saved) - numBindings + 1]
       IN RestoreBindingsForward([store EXCEPT ![e.tv] = e.prior],
                                 saved, numBindings - 1)

\* The last numBindings entries of the journal are restored, newest first.
RECURSIVE RestoreBindings(_, _, _)
RestoreBindings(store, saved, numBindings) ==
  IF numBindings = 0 THEN store
  ELSE LET e == saved[Len(saved)]
       IN RestoreBindings([store EXCEPT ![e.tv] = e.prior],
                          SubSeq(saved, 1, Len(saved) - 1), numBindings - 1)

restoreTypeVariableBindings(s, numBindings) ==
  [s EXCEPT !.store = RestoreBindings(s.store, s.savedBindings, numBindings),
            !.savedBindings = truncate(@, Len(@) - numBindings)]

\* Lines 619-628 in the other order: the generated constraints are erased
\* before the retired ones are moved back.
RestoreConstraintsEraseFirst(s, sc) ==
  LET k == Len(s.retiredConstraints) - sc.firstRetired
      back == SubSeq(s.retiredConstraints, 1, k)
  IN [s EXCEPT !.Constraints = SelectSeq(s.Constraints,
                                  LAMBDA c : c \notin sc.generatedConstraints) \o back,
               !.retiredConstraints = SubSeq(@, k + 1, Len(@))]

\* Lines 619-628: the constraints retired since the scope was entered are
\* spliced to the end of the active list, then the constraints generated in
\* the scope are erased from it.
RestoreConstraints(s, sc) ==
  LET k == Len(s.retiredConstraints) - sc.firstRetired
      back == SubSeq(s.retiredConstraints, 1, k)
  IN [s EXCEPT !.Constraints = SelectSeq(s.Constraints \o back,
                                  LAMBDA c : c \notin sc.generatedConstraints),
               !.retiredConstraints = SubSeq(@, k + 1, Len(@))]

\* ~SolverScope without line 612: the overloads resolved in the scope stay
\* resolved.
ExitScopeKeepsOverloads(s) ==
  LET sc == s.scopes[Len(s.scopes)]
      s1 == [s EXCEPT !.TypeVariables = truncate(@, sc.numTypeVariables)]
      s2 == restoreTypeVariableBindings(s1, Len(s1.savedBindings) - sc.numSavedBindings)
      s3 == RestoreConstraints(s2, sc)
  IN [s3 EXCEPT !.constraintRestrictions = truncate(@, sc.numConstraintRestrictions),
                !.scopes = truncate(@, Len(@) - 1),
                !.CurrentScore = sc.PreviousScore,
                !.failedConstraint = <<>>,
                !.CG = sc.CG]

\* ~SolverScope without line 640: failedConstraint is left as it is.
ExitScopeKeepsFailure(s) ==
  LET sc == s.scopes[Len(s.scopes)]
      s1 == [s EXCEPT !.resolvedOverloadSets = truncate(@, sc.resolvedOverloadSets),
                      !.TypeVariables = truncate(@, sc.numTypeVariables)]
      s2 == restoreTypeVariableBindings(s1, Len(s1.savedBindings) - sc.numSavedBindings)
      s3 == RestoreConstraints(s2, sc)
  IN [s3 EXCEPT !.constraintRestrictions = truncate(@, sc.numConstraintRestrictions),
                !.scopes = truncate(@, Len(@) - 1),
                !.CurrentScore = sc.PreviousScore,
                !.CG = sc.CG]

\* ~SolverScope without line 637: the score is left as the scope made it.
ExitScopeKeepsScore(s) ==
  LET sc == s.scopes[Len(s.scopes)]
      s1 == [s EXCEPT !.resolvedOverloadSets = truncate(@, sc.resolvedOverloadSets),
                      !.TypeVariables = truncate(@, sc.numTypeVariables)]
      s2 == restoreTypeVariableBindings(s1, Len(s1.savedBindings) - sc.numSavedBindings)
      s3 == RestoreConstraints(s2, sc)
  IN [s3 EXCEPT !.constraintRestrictions = truncate(@, sc.numConstraintRestrictions),
                !.scopes = truncate(@, Len(@) - 1),
                !.failedConstraint = <<>>,
                !.CG = sc.CG]

\* SolverScope::~SolverScope
ExitScope(s) ==
  LET sc == s.scopes[Len(s.scopes)]
      s1 == [s EXCEPT !.resolvedOverloadSets = truncate(@, sc.resolvedOverloadSets),
                      !.TypeVariables = truncate(@, sc.numTypeVariables)]
      s2 == restoreTypeVariableBindings(s1, Len(s1.savedBindings) - sc.numSavedBindings)
      s3 == RestoreConstraints(s2, sc)
  IN [s3 EXCEPT !.constraintRestrictions = truncate(@, sc.numConstraintRestrictions),
                !.scopes = truncate(@, Len(@) - 1),
                !.CurrentScore = sc.PreviousScore,
                !.failedConstraint = <<>>,
                !.CG = sc.CG]

-----------------------------------------------------------------------------
(* Solutions *)

Disallow == "Disallow"
Allow == "Allow"
GenericParameters == "GenericParameters"

\* Lines 84-103: the type variables without a fixed type, in list order.
\* The result carries the index of the next generic parameter and whether
\* the Disallow case was reached.
RECURSIVE BindFreeTypeVariables(_, _, _, _, _)
BindFreeTypeVariables(s, allowFree, i, index, reached) ==
  IF i > Len(s.TypeVariables) THEN [s |-> s, unreachable |-> reached]
  ELSE LET tv == s.TypeVariables[i]
       IN IF getFixedType(s, tv) # None
          THEN BindFreeTypeVariables(s, allowFree, i + 1, index, reached)
          ELSE CASE allowFree = Disallow ->
                      BindFreeTypeVariables(s, allowFree, i + 1, index, TRUE)
                 [] allowFree = Allow ->
                      BindFreeTypeVariables(s, allowFree, i + 1, index, reached)
                 [] OTHER ->
                      BindFreeTypeVariables(
                        assignFixedType(s, tv, GenericParam(index), TRUE),
                        allowFree, i + 1, index + 1, reached)

\* Lines 110-115: the walk from the newest resolved overload to the oldest;
\* each step assigns, so the oldest entry of a locator is the one kept.
OverloadChoices(s) ==
  LET ros == s.resolvedOverloadSets
      locs == {ros[i].locator : i \in 1..Len(ros)}
  IN [l \in locs |->
        ros[CHOOSE i \in 1..Len(ros) :
              /\ ros[i].locator = l
              /\ \A j \in 1..Len(ros) : ros[j].locator = l => i <= j].choice]

\* Lines 117-126: restrictions keyed by the simplified types; a later entry
\* of the same key replaces an earlier one.
Restrictions(s) ==
  LET crs == s.constraintRestrictions
      key(i) == <<simplifyType(s, crs[i][1]), simplifyType(s, crs[i][2])>>
      keys == {key(i) : i \in 1..Len(crs)}
  IN [k \in keys |->
        crs[CHOOSE i \in 1..Len(crs) :
              /\ key(i) = k
              /\ \A j \in 1..Len(crs) : key(j) = k => j <= i][3]]

\* finalize with the bindings read before the free variables are bound.
finalizeBeforeFreeBinding(s, allowFree) ==
  LET s1 == [s EXCEPT !.BestScore = <<s.CurrentScore>>]
      b == BindFreeTypeVariables(s1, allowFree, 1, 0, FALSE)
  IN [s |-> b.s,
      unreachable |-> b.unreachable,
      solution |->
        [typeBindings |-> [tv \in ToSet(s1.TypeVariables) |-> simplifyType(s1, tv)],
         overloadChoices |-> OverloadChoices(b.s),
         constraintRestrictions |-> Restrictions(b.s),
         score |-> s.CurrentScore]]

\* ConstraintSystem::finalize
finalize(s, allowFree) ==
  LET s1 == [s EXCEPT !.BestScore = <<s.CurrentScore>>]
      b == BindFreeTypeVariables(s1, allowFree, 1, 0, FALSE)
      s2 == b.s
  IN [s |-> s2,
      unreachable |-> b.unreachable,
      solution |->
        [typeBindings |-> [tv \in ToSet(s2.TypeVariables) |-> simplifyType(s2, tv)],
         overloadChoices |-> OverloadChoices(s2),
         constraintRestrictions |-> Restrictions(s2),
         score |-> s.CurrentScore]]

\* Lines 138-147 with the score charged for the binding.
applyBindingScored(s, tv, type) ==
  LET s1 == IF tv \in ToSet(s.TypeVariables) THEN s
            ELSE [s EXCEPT !.TypeVariables = Append(@, tv)]
  IN IF getFixedType(s1, tv) = None /\ ~hasTypeVariable(type)
     THEN assignFixedType(s1, tv, type, TRUE)
     ELSE s1

\* Lines 138-147: one binding of the solution being applied.
applyBinding(s, tv, type) ==
  LET s1 == IF tv \in ToSet(s.TypeVariables) THEN s
            ELSE [s EXCEPT !.TypeVariables = Append(@, tv)]
  IN IF getFixedType(s1, tv) = None /\ ~hasTypeVariable(type)
     THEN assignFixedType(s1, tv, type, FALSE)
     ELSE s1

RECURSIVE ApplyBindings(_, _, _)
ApplyBindings(s, bindings, i) ==
  IF i > Len(VarOrder) THEN s
  ELSE IF VarOrder[i] \in DOMAIN bindings
  THEN ApplyBindings(applyBinding(s, VarOrder[i], bindings[VarOrder[i]]),
                     bindings, i + 1)
  ELSE ApplyBindings(s, bindings, i + 1)

\* The order in which the entries of a map are visited.
RECURSIVE SetToSeq(_)
SetToSeq(S) ==
  IF S = {} THEN <<>>
  ELSE LET x == CHOOSE y \in S : TRUE IN <<x>> \o SetToSeq(S \ {x})

\* ConstraintSystem::applySolution
applySolution(s, solution) ==
  LET s1 == [s EXCEPT !.CurrentScore = ScoreAdd(@, solution.score)]
      s2 == ApplyBindings(s1, solution.typeBindings, 1)
      locs == SetToSeq(DOMAIN solution.overloadChoices)
      keys == SetToSeq(DOMAIN solution.constraintRestrictions)
  IN [s2 EXCEPT
        !.resolvedOverloadSets = @ \o
           [i \in 1..Len(locs) |->
              [locator |-> locs[i], choice |-> solution.overloadChoices[locs[i]]]],
        !.constraintRestrictions = @ \o
           [i \in 1..Len(keys) |->
              <<keys[i][1], keys[i][2], solution.constraintRestrictions[keys[i]]>>]]

\* findBestSolution(viable, minimize): the index of the solution whose score
\* is strictly better than every other's (from 1), or 0 when there is no such
\* solution; with minimize, the solutions that another one beats are dropped.
BestIndex(viable) ==
  IF \E i \in 1..Len(viable) :
        \A j \in 1..Len(viable) : j # i => ScoreLess(viable[i].score, viable[j].score)
  THEN CHOOSE i \in 1..Len(viable) :
        \A j \in 1..Len(viable) : j # i => ScoreLess(viable[i].score, viable[j].score)
  ELSE 0

Minimized(viable) ==
  SelectSeq(viable, LAMBDA x :
    \A j \in 1..Len(viable) : ~ScoreLess(viable[j].score, x.score))

\* Lines 930-936 and 1123-1127 without the erasure: the list stays as found.
KeepAll(viable, minimize) == viable

\* Lines 930-936 and 1123-1127: the list a findBestSolution call leaves.
KeepBest(viable, minimize) ==
  IF BestIndex(viable) # 0 THEN <<viable[BestIndex(viable)]>>
  ELSE IF minimize THEN Minimized(viable)
  ELSE viable

-----------------------------------------------------------------------------
(* Connected components of the constraint graph *)

\* Two variables are in one component when they share a representative,
\* when the fixed type of one mentions the other, or when a constraint of
\* the graph touches both.
Linked(s, v, w) ==
  \/ getRepresentative(s, v) \in getTypeVariables(simplifyType(s, w))
  \/ getRepresentative(s, w) \in getTypeVariables(simplifyType(s, v))
  \/ \E c \in ToSet(s.CG) : Adjacent(s, c, v) /\ Adjacent(s, c, w)

RECURSIVE Closure(_, _)
Closure(s, S) ==
  LET N == S \cup {w \in ToSet(s.TypeVariables) : \E u \in S : Linked(s, u, w)}
  IN IF N = S THEN S ELSE Closure(s, N)

FirstIndex(s, S) ==
  CHOOSE i \in 1..Len(s.TypeVariables) :
    /\ s.TypeVariables[i] \in S
    /\ \A j \in 1..(i - 1) : s.TypeVariables[j] \notin S

\* computeConnectedComponents(typeVars, components): the variables of the
\* components that hold an unbound variable, each with the number of its
\* component; components are numbered in the order of TypeVariables.
ComponentOf(s) ==
  LET vs == ToSet(s.TypeVariables)
      class(v) == Closure(s, {v})
      assigned == {v \in vs : \E w \in class(v) : getFixedType(s, w) = None}
      starts == {FirstIndex(s, class(v)) : v \in assigned}
  IN [v \in assigned |->
        Cardinality({i \in starts : i < FirstIndex(s, class(v))})]

NumComponents(s) ==
  LET comp == ComponentOf(s) IN Cardinality({comp[v] : v \in DOMAIN comp})

\* Lines 1007-1016: the component of a constraint is that of a variable it
\* is attached to in the graph; a constraint attached to none is looked up
\* in an empty map entry, which is component 0.
ConstraintComponent(s, c) ==
  LET comp == ComponentOf(s)
      adj == {v \in DOMAIN comp : c \in ToSet(s.CG) /\ Adjacent(s, c, v)}
  IN IF adj = {} THEN 0 ELSE comp[CHOOSE v \in adj : TRUE]

\* Lines 1052-1060 without the test of the component: every variable stays.
ComponentTypeVariablesAll(allTypeVariables, typeVarComponent, component) ==
  allTypeVariables

\* Lines 1052-1060: the variables that are not part of a different component.
ComponentTypeVariables(allTypeVariables, typeVarComponent, component) ==
  SelectSeq(allTypeVariables,
            LAMBDA v : ~(v \in DOMAIN typeVarComponent
                         /\ typeVarComponent[v] # component))

-----------------------------------------------------------------------------
(* collectConstraintsForTypeVariables *)

Classification(c) ==
  CASE c.kind \in {"Bind", "Equal", "TrivialSubtype", "Subtype", "Conversion",
                   "ConformsTo", "SelfObjectOfProtocol", "ApplicableFunction",
                   "BindOverload"} -> "Relational"
    [] c.kind \in {"ValueMember", "TypeMember"} -> "Member"
    [] c.kind = "Conjunction" -> "Conjunction"
    [] c.kind = "Disjunction" -> "Disjunction"
    [] OTHER -> "TypeProperty"

TypeVariableConstraints(tv) ==
  [TypeVar |-> tv, Above |-> <<>>, Below |-> <<>>, ConformsToConstraints |-> <<>>,
   FullyBound |-> FALSE, HasNonConcreteConstraints |-> FALSE]

\* getTVC: the summary of the representative, appended when it is new.
WithTVC(s, tvcs, tv) ==
  LET r == getRepresentative(s, tv)
  IN IF \E i \in 1..Len(tvcs) : tvcs[i].TypeVar = r THEN tvcs
     ELSE Append(tvcs, TypeVariableConstraints(r))

IndexOfTVC(s, tvcs, tv) ==
  CHOOSE i \in 1..Len(tvcs) : tvcs[i].TypeVar = getRepresentative(s, tv)

RECURSIVE MarkFullyBound(_, _, _)
MarkFullyBound(s, tvcs, vars) ==
  IF vars = {} THEN tvcs
  ELSE LET v == CHOOSE x \in vars : TRUE
           t1 == WithTVC(s, tvcs, v)
       IN MarkFullyBound(s, [t1 EXCEPT ![IndexOfTVC(s, t1, v)].FullyBound = TRUE],
                         vars \ {v})

\* Lines 346-361: the variables of the operands of the nested constraints,
\* one level into an inner conjunction.
DisjunctionTypeVars(s, c) ==
  LET inner(d) == IF d.kind = "Conjunction" THEN d.nested ELSE <<d>>
      vars(x) == getTypeVariables(simplifyType(s, x.first)) \cup
                 (IF x.second = None \/ x.kind = "ConformsTo" THEN {}
                  ELSE getTypeVariables(simplifyType(s, x.second)))
  IN UNION {UNION {vars(inner(c.nested[i])[j]) : j \in 1..Len(inner(c.nested[i]))}
            : i \in 1..Len(c.nested)}

\* Lines 365-389: a relational constraint bounds the variable on either side.
CollectRelational(s, acc, c, first) ==
  LET second == simplifyType(s, c.second)
      t1 == IF isTypeVariable(first) THEN WithTVC(s, acc.tvcs, first) ELSE acc.tvcs
      t2 == IF isTypeVariable(first)
            THEN [t1 EXCEPT ![IndexOfTVC(s, t1, first)].Above = Append(@, <<c, second>>)]
            ELSE t1
      t3 == IF isTypeVariable(second) THEN WithTVC(s, t2, second) ELSE t2
      t4 == IF isTypeVariable(second)
            THEN [t3 EXCEPT ![IndexOfTVC(s, t3, second)].Below = Append(@, <<c, first>>)]
            ELSE t3
      refs == (IF isTypeVariable(first) THEN {} ELSE getTypeVariables(first))
              \cup (IF isTypeVariable(second) THEN {} ELSE getTypeVariables(second))
              \cup (IF isTypeVariable(first) /\ isTypeVariable(second)
                    THEN {first, second} ELSE {})
  IN [acc EXCEPT !.tvcs = t4, !.referenced = @ \cup refs]

\* Lines 275-390: one constraint of the active list.
CollectOne(s, acc, c) ==
  LET first == IF c.kind \in {"Conjunction", "Disjunction"} THEN None
               ELSE simplifyType(s, c.first)
  IN CASE Classification(c) = "Relational" ->
            IF c.kind \in {"ConformsTo", "SelfObjectOfProtocol"}
            THEN IF isTypeVariable(first)
                 THEN LET t1 == WithTVC(s, acc.tvcs, first)
                      IN [acc EXCEPT !.tvcs =
                            [t1 EXCEPT ![IndexOfTVC(s, t1, first)].ConformsToConstraints
                                          = Append(@, c)]]
                 ELSE acc
            ELSE IF c.kind = "ApplicableFunction"
            THEN [acc EXCEPT
                    !.tvcs = MarkFullyBound(s, @, getTypeVariables(first)),
                    !.referenced = @ \cup getTypeVariables(simplifyType(s, c.second))]
            ELSE CollectRelational(s, acc, c, first)
       [] Classification(c) = "TypeProperty" ->
            IF isTypeVariable(first) THEN acc
            ELSE [acc EXCEPT !.referenced = @ \cup getTypeVariables(first)]
       [] Classification(c) = "Member" ->
            LET baseTypeVars == getTypeVariables(first)
                memberTypeVars == getTypeVariables(simplifyType(s, c.second))
                intersect == \E a \in baseTypeVars, b \in memberTypeVars :
                               getRepresentative(s, a) = getRepresentative(s, b)
            IN IF ~intersect
               THEN [acc EXCEPT !.tvcs = MarkFullyBound(s, @, memberTypeVars)]
               ELSE [acc EXCEPT !.referenced = @ \cup memberTypeVars]
       [] Classification(c) = "Disjunction" ->
            [acc EXCEPT !.disjunctions = Append(@, c),
                        !.referenced = @ \cup DisjunctionTypeVars(s, c)]
       [] OTHER -> acc

RECURSIVE CollectAll(_, _, _)
CollectAll(s, acc, i) ==
  IF i > Len(s.Constraints) THEN acc
  ELSE CollectAll(s, CollectOne(s, acc, s.Constraints[i]), i + 1)

\* ConstraintSystem::collectConstraintsForTypeVariables
collectConstraintsForTypeVariables(s) ==
  LET acc == CollectAll(s, [tvcs |-> <<>>, referenced |-> {}, disjunctions |-> <<>>], 1)
      reps == {getRepresentative(s, v) : v \in acc.referenced}
  IN [typeVarConstraints |->
        [i \in 1..Len(acc.tvcs) |->
           IF acc.tvcs[i].TypeVar \in reps
           THEN [acc.tvcs[i] EXCEPT !.HasNonConcreteConstraints = TRUE]
           ELSE acc.tvcs[i]],
      disjunctions |-> acc.disjunctions]

-----------------------------------------------------------------------------
(* Potential bindings *)

\* TypeChecker::getDefaultType: the default literal type of a protocol.
getDefaultType(proto) ==
  CASE proto = "IntegerLiteral" -> "Int"
    [] proto = "ArrayLiteral" -> "Array"
    [] OTHER -> None

getAlternativeLiteralTypes(proto) ==
  IF proto = "IntegerLiteral" THEN <<"Double">> ELSE <<>>

isUnspecializedGeneric(t) == t = "Array"
getAnyNominal(t) ==
  IF t \in ArrayTypes \cup {"Array"} THEN "Array"
  ELSE IF getCanonicalType(t) \in NominalTypes THEN getCanonicalType(t)
  ELSE None

\* checkTypeOfBinding without lines 57-61: a type that references the
\* variable is permitted.
checkTypeOfBindingNoOccurs(s, typeVar, type) ==
  IF type = None THEN None
  ELSE LET simple == simplifyType(s, type)
       IN IF isTypeVariable(getRValueType(simple)) THEN None ELSE simple

\* checkTypeOfBinding: the simplified type, or None when the binding is not
\* permitted.
checkTypeOfBinding(s, typeVar, type) ==
  IF type = None THEN None
  ELSE LET simple == simplifyType(s, type)
       IN IF typeVar \in getTypeVariables(simple) THEN None
          ELSE IF isTypeVariable(getRValueType(simple)) THEN None
          ELSE simple

PotentialBindings(tvc) ==
  [Bindings |-> <<>>, FullyBound |-> tvc.FullyBound,
   InvolvesTypeVariables |-> tvc.HasNonConcreteConstraints,
   HasLiteralBindings |-> FALSE, exactTypes |-> {}]

\* Lines 703-704 and 734-735 without the test of exactTypes.insert: every
\* permitted bound becomes a candidate.
AddBindingAlways(result, type, open) ==
  [result EXCEPT !.exactTypes = @ \cup {getCanonicalType(type)},
                 !.Bindings = Append(@, <<type, open>>)]

\* Lines 703-704 and 734-735: a candidate is added once per canonical type.
AddBinding(result, type, open) ==
  IF getCanonicalType(type) \in result.exactTypes THEN result
  ELSE [result EXCEPT !.exactTypes = @ \cup {getCanonicalType(type)},
                      !.Bindings = Append(@, <<type, open>>)]

\* Lines 688-705: the types below the variable.
RECURSIVE AddBelow(_, _, _, _)
AddBelow(s, tvc, result, i) ==
  IF i > Len(tvc.Below) THEN result
  ELSE LET boundTy == checkTypeOfBinding(s, tvc.TypeVar, tvc.Below[i][2])
       IN IF boundTy = None
          THEN AddBelow(s, tvc, [result EXCEPT !.InvolvesTypeVariables = TRUE], i + 1)
          ELSE AddBelow(s, tvc,
                 AddBinding([result EXCEPT !.InvolvesTypeVariables =
                                              @ \/ hasTypeVariable(boundTy)],
                            boundTy, FALSE),
                 i + 1)

\* Lines 708-736: the types above the variable.
RECURSIVE AddAbove(_, _, _, _)
AddAbove(s, tvc, result, i) ==
  IF i > Len(tvc.Above) THEN result
  ELSE LET boundTy == checkTypeOfBinding(s, tvc.TypeVar, tvc.Above[i][2])
           type == IF /\ tvc.Above[i][1].kind \in
                            {"Conversion", "Subtype", "TrivialSubtype"}
                      /\ boundTy \in TupleTypes
                   THEN getElementType(boundTy) ELSE boundTy
       IN IF boundTy = None
          THEN AddAbove(s, tvc, [result EXCEPT !.InvolvesTypeVariables = TRUE], i + 1)
          ELSE AddAbove(s, tvc,
                 AddBinding([result EXCEPT !.InvolvesTypeVariables =
                                              @ \/ hasTypeVariable(boundTy)],
                            type, FALSE),
                 i + 1)

\* Lines 741-772: the default literal types of the protocols.
RECURSIVE AddDefaults(_, _, _)
AddDefaults(tvc, result, i) ==
  IF i > Len(tvc.ConformsToConstraints) THEN result
  ELSE LET type == getDefaultType(tvc.ConformsToConstraints[i].second)
           matched == \E e \in result.exactTypes : getAnyNominal(e) = getAnyNominal(type)
       IN IF type = None THEN AddDefaults(tvc, result, i + 1)
          ELSE IF ~isUnspecializedGeneric(type)
          THEN IF getCanonicalType(type) \in result.exactTypes
               THEN AddDefaults(tvc, result, i + 1)
               ELSE AddDefaults(tvc,
                      AddBinding([result EXCEPT !.HasLiteralBindings = TRUE], type, TRUE),
                      i + 1)
          ELSE IF matched THEN AddDefaults(tvc, result, i + 1)
          ELSE AddDefaults(tvc,
                 [result EXCEPT !.HasLiteralBindings = TRUE,
                                !.exactTypes = @ \cup {getCanonicalType(type)},
                                !.Bindings = Append(@, <<type, TRUE>>)],
                 i + 1)

\* getPotentialBindings
getPotentialBindings(s, tvc) ==
  AddDefaults(tvc, AddAbove(s, tvc, AddBelow(s, tvc, PotentialBindings(tvc), 1), 1), 1)

\* -x.Bindings.size(): the negation of an unsigned size.
SizeModulus == 65536

\* Line 667 without the negation: the size itself is compared.
PlainSize(n) == n % SizeModulus

NegatedSize(n) == (SizeModulus - n) % SizeModulus

BoolLess(a, b) == ~a /\ b

\* PotentialBindings::operator<
BindingsLess(x, y) ==
  \/ BoolLess(x.FullyBound, y.FullyBound)
  \/ /\ x.FullyBound = y.FullyBound
     /\ \/ BoolLess(x.InvolvesTypeVariables, y.InvolvesTypeVariables)
        \/ /\ x.InvolvesTypeVariables = y.InvolvesTypeVariables
           /\ \/ BoolLess(x.HasLiteralBindings, y.HasLiteralBindings)
              \/ /\ x.HasLiteralBindings = y.HasLiteralBindings
                 /\ NegatedSize(Len(x.Bindings)) < NegatedSize(Len(y.Bindings))

\* Lines 1190-1203: the index of the best type variable to bind.
RECURSIVE BestTypeVar(_, _, _, _)
BestTypeVar(s, tvcs, i, best) ==
  IF i > Len(tvcs) THEN best
  ELSE LET bindings == getPotentialBindings(s, tvcs[i])
           bestBindings == getPotentialBindings(s, tvcs[best])
       IN IF bindings.Bindings # <<>> /\
             (bestBindings.Bindings = <<>> \/ BindingsLess(bindings, bestBindings))
          THEN BestTypeVar(s, tvcs, i + 1, i)
          ELSE BestTypeVar(s, tvcs, i + 1, best)

\* ConstraintSystem::enumerateDirectSupertypes
enumerateDirectSupertypes(type) ==
  (IF type \in TupleTypes THEN <<getElementType(type)>> ELSE <<>>)
  \o (IF getSuperClassOf(type) # None THEN <<getSuperClassOf(type)>> ELSE <<>>)
  \o (IF type \in LValueTypes THEN <<getRValueType(type)>> ELSE <<>>)

\* openBindingType: a generic literal default is opened with a fresh type
\* variable, which joins TypeVariables.
openBindingType(s, type) ==
  IF isUnspecializedGeneric(type)
  THEN [type |-> ArrayOf(FreshTypeVar),
        s |-> [s EXCEPT !.TypeVariables = Append(@, FreshTypeVar)]]
  ELSE [type |-> type, s |-> s]

-----------------------------------------------------------------------------
(* Input systems *)

Disjunction(id, locator, nested) ==
  [id |-> id, kind |-> "Disjunction", first |-> None, second |-> None,
   nested |-> nested, restriction |-> None, locator |-> locator]

Conjunction(id, nested) ==
  [id |-> id, kind |-> "Conjunction", first |-> None, second |-> None,
   nested |-> nested, restriction |-> None, locator |-> None]

Overload(id, locator, tv, type) ==
  [Constraint(id, "BindOverload", tv, type) EXCEPT !.locator = locator]

\* The constraints an input system is drawn from, in the order in which
\* the front end adds them.
Universe ==
  << Constraint(1, "Subtype", "Int", "$0"),
     Constraint(2, "Subtype", "String", "$1"),
     Constraint(3, "ConformsTo", "$0", "IntegerLiteral"),
     Disjunction(4, "L1", << Overload(41, "L1", "$0", "Double"),
                             Overload(42, "L1", "$0", "Int") >>),
     Disjunction(5, "L2", << Overload(51, "L2", "$1", "String"),
                             Overload(52, "L2", "$1", "Int") >>),
     Constraint(6, "Subtype", "Sub", "$2"),
     Constraint(7, "ConformsTo", "$2", "Printable"),
     Constraint(8, "Conversion", "$0", "Int?"),
     Constraint(9, "ConformsTo", "$2", "ArrayLiteral"),
     Disjunction(10, None,
                 << Conjunction(101, << Constraint(102, "Equal", "$1", "$2"),
                                        Constraint(103, "Equal", "$0", "$1") >>),
                    Constraint(104, "Equal", "$0", "$2") >>),
     Constraint(11, "Subtype", "$0", "Double"),
     Constraint(12, "Subtype", "$0", "$1"),
     Disjunction(13, "L3", << Overload(131, "L3", "$2", "Double"),
                              Constraint(132, "Equal", "$0", "$1") >>),
     Constraint(14, "ConformsTo", "$2", "IntegerLiteral"),
     Constraint(15, "Subtype", "Integer", "$0") >>

SubSystems ==
  {S \in SUBSET (1..Len(Universe)) : Cardinality(S) <= MaxConstraints}

SystemOf(S) ==
  LET F[i \in 0..Len(Universe)] ==
        IF i = 0 THEN <<>>
        ELSE IF i \in S THEN Append(F[i - 1], Universe[i]) ELSE F[i - 1]
  IN F[Len(Universe)]

SystemTypeVars(system) ==
  SelectSeq(VarOrder, LAMBDA v :
    \E i \in 1..Len(system) : v \in ConstraintTypeVars(system[i]))

\* The variables that can bind to an l-value.
canBindToLValue(tv) == tv = "$2"

-----------------------------------------------------------------------------
(* The solver as a state machine *)

VARIABLES
  cs,             \* the ConstraintSystem
  stack,          \* the call stack: solve, solveSimplified, tryTypeVariableBindings;
                  \* sizeAtCall is the size the list had when the call was made
  lists,          \* the solution lists: 1 is the caller's, the rest are partialSolutions
  ret,            \* the value the last call returned (TRUE is failure)
  allowFree,      \* allowFreeTypeVariables
  input,          \* the type variables of the input system
  entries,        \* per open scope, the system as it was when the scope was entered
  exitLog,        \* the last scope exit: the system at entry and right after exit
  event,          \* what the last step did to a solution list
  unreachableHit  \* llvm_unreachable("Solver left free type variables") was reached

vars == <<cs, stack, lists, ret, allowFree, input, entries, exitLog, event,
          unreachableHit>>

NoEvent == [kind |-> "none", path |-> "", list |-> 0]
Pruned(path) == [kind |-> "pruned", path |-> path, list |-> 0]

InitialSystem(system) ==
  [store |-> [v \in AllTypeVars |-> [rep |-> v, fixed |-> None]],
   TypeVariables |-> SystemTypeVars(system),
   Constraints |-> system,
   retiredConstraints |-> <<>>,
   Worklist |-> system,
   active |-> ToSet(system),
   CG |-> system,
   savedBindings |-> <<>>,
   resolvedOverloadSets |-> <<>>,
   constraintRestrictions |-> <<>>,
   CurrentScore |-> ZeroScore,
   BestScore |-> <<>>,
   failedConstraint |-> <<>>,
   solverState |-> FALSE,
   scopes |-> <<>>]

Init ==
  /\ \E S \in SubSystems : cs = InitialSystem(SystemOf(S))
  /\ allowFree \in {Disallow, Allow, GenericParameters}
  /\ input = cs.TypeVariables
  /\ stack = <<[proc |-> "top", pc |-> "call"]>>
  /\ lists = << <<>> >>
  /\ ret = FALSE
  /\ entries = <<>>
  /\ exitLog = <<>>
  /\ event = NoEvent
  /\ unreachableHit = FALSE

Frame == stack[Len(stack)]
At(proc, pc) == stack # <<>> /\ Frame.proc = proc /\ Frame.pc = pc
SetFrame(f) == [stack EXCEPT ![Len(stack)] = f]
Pop == SubSeq(stack, 1, Len(stack) - 1)

\* A scope exit, with the record of it.
ScopeRecord(pre, s, failed) ==
  LET sc == s.scopes[Len(s.scopes)]
  IN [pre |-> [pre EXCEPT !.scopes = <<>>],
      post |-> [ExitScope(s) EXCEPT !.scopes = <<>>],
      generated |-> sc.generatedConstraints,
      saved |-> SubSeq(s.savedBindings, sc.numSavedBindings + 1, Len(s.savedBindings)),
      retired |-> SubSeq(s.retiredConstraints, 1,
                         Len(s.retiredConstraints) - sc.firstRetired),
      active |-> s.Constraints,
      grown |-> Len(s.TypeVariables) - sc.numTypeVariables,
      failedConstraint |-> s.failedConstraint,
      failed |-> failed]
ExitRecord(failed) == ScopeRecord(entries[Len(entries)], cs, failed)
PopEntry == SubSeq(entries, 1, Len(entries) - 1)
PushEntry == Append(entries, [cs EXCEPT !.scopes = <<>>])

Quiet == /\ event' = NoEvent
         /\ UNCHANGED <<allowFree, input, unreachableHit>>

\* Lines 920-926: the top-level call creates the solver state and recurses.
TopCall ==
  /\ At("top", "call")
  /\ cs' = [cs EXCEPT !.solverState = TRUE]
  /\ stack' = Append(SetFrame([Frame EXCEPT !.pc = "returned"]),
                     [proc |-> "solve", pc |-> "entry", out |-> 1,
                      sizeAtCall |-> Len(lists[1])])
  /\ UNCHANGED <<lists, ret, entries, exitLog>>
  /\ Quiet

\* Lines 928-940 without the ranking step: the list is returned as found.
TopResultUnranked(solutions) ==
  [solutions |-> solutions, failed |-> Len(solutions) # 1]

\* Lines 928-940 as a function of the list the search produced.
TopResult(solutions) ==
  LET kept == IF Len(solutions) > 1 THEN KeepBest(solutions, FALSE) ELSE solutions
  IN [solutions |-> kept, failed |-> Len(kept) # 1]

TopReturn ==
  /\ At("top", "returned")
  /\ cs' = [cs EXCEPT !.solverState = FALSE]
  /\ lists' = [lists EXCEPT ![1] = TopResult(lists[1]).solutions]
  /\ ret' = TopResult(lists[1]).failed
  /\ stack' = SetFrame([proc |-> "top", pc |-> "done", accumulated |-> lists[1]])
  /\ UNCHANGED <<entries, exitLog>>
  /\ Quiet

\* Line 944: an earlier failure, or the result of simplify().
Simplified ==
  IF cs.failedConstraint # <<>> THEN [failed |-> TRUE, s |-> cs] ELSE simplify(cs)

\* Lines 943-945.
SolveFail ==
  /\ At("solve", "entry")
  /\ \E r \in {Simplified} :
       /\ r.failed
       /\ cs' = r.s
       /\ event' = IF r.s.failedConstraint = <<>> THEN Pruned("simplify") ELSE NoEvent
  /\ stack' = Pop
  /\ ret' = TRUE
  /\ UNCHANGED <<lists, entries, exitLog, allowFree, input, unreachableHit>>

\* Lines 948-958 without the check for free type variables.
LeafAcceptsFreeVariables(s) ==
  ~worseThanBestSolution(s)

\* Lines 948-958 without lines 951-952: the score is not looked at.
LeafAcceptsAnyScore(s) ==
  ~(allowFree = Disallow /\ hasFreeTypeVariables(s))

\* Lines 948-969: no constraint remains.
LeafAccepts(s) ==
  /\ ~worseThanBestSolution(s)
  /\ ~(allowFree = Disallow /\ hasFreeTypeVariables(s))

SolveLeaf ==
  /\ At("solve", "entry")
  /\ \E r \in {Simplified} :
       /\ ~r.failed
       /\ r.s.Constraints = <<>>
       /\ IF LeafAccepts(r.s)
          THEN \E f \in {finalize(r.s, allowFree)} :
                 /\ cs' = f.s
                 /\ lists' = [lists EXCEPT ![Frame.out] = Append(@, f.solution)]
                 /\ ret' = FALSE
                 /\ event' = [kind |-> "finalize", path |-> "leaf", list |-> Frame.out]
                 /\ unreachableHit' = (unreachableHit \/ f.unreachable)
          ELSE /\ cs' = r.s
               /\ ret' = TRUE
               /\ event' = IF worseThanBestSolution(r.s) THEN Pruned("leaf")
                            ELSE NoEvent
               /\ UNCHANGED <<lists, unreachableHit>>
  /\ stack' = Pop
  /\ UNCHANGED <<allowFree, input, entries, exitLog>>

\* Lines 984-990: fewer than two components: the whole system is solved.
SolveWhole ==
  /\ At("solve", "entry")
  /\ \E r \in {Simplified} :
       /\ ~r.failed
       /\ r.s.Constraints # <<>>
       /\ NumComponents(r.s) < 2
       /\ cs' = r.s
  /\ stack' = SetFrame([proc |-> "solveSimplified", pc |-> "entry", out |-> Frame.out,
                        sizeAtCall |-> Frame.sizeAtCall])
  /\ UNCHANGED <<lists, ret, entries, exitLog>>
  /\ Quiet

\* Lines 1005-1039: the constraints are sorted into one bucket per component.
SolveSplit ==
  /\ At("solve", "entry")
  /\ \E r \in {Simplified} :
       /\ ~r.failed
       /\ r.s.Constraints # <<>>
       /\ \E n \in {NumComponents(r.s)} :
            /\ n >= 2
            /\ cs' = [r.s EXCEPT !.Constraints = <<>>]
            /\ stack' = SetFrame(
                 [proc |-> "solve", pc |-> "component", out |-> Frame.out,
                  sizeAtCall |-> Frame.sizeAtCall,
                  numComponents |-> n,
                  typeVarComponent |-> ComponentOf(r.s),
                  constraintBuckets |->
                    [k \in 1..n |-> SelectSeq(r.s.Constraints,
                                      LAMBDA c : ConstraintComponent(r.s, c) = k - 1)],
                  component |-> 0,
                  allTypeVariables |-> r.s.TypeVariables,
                  PreviousBestScore |-> r.s.BestScore,
                  partialSolutions |-> Len(lists),
                  indices |-> [k \in 1..n |-> 0],
                  anySolutions |-> FALSE,
                  pushed |-> FALSE,
                  preScore |-> ZeroScore,
                  found |-> <<>>,
                  tried |-> <<>>,
                  recorded |-> Len(lists[Frame.out]),
                  atSplit |-> [TypeVariables |-> r.s.TypeVariables,
                               Constraints |-> r.s.Constraints]])
            /\ lists' = lists \o [k \in 1..n |-> <<>>]
  /\ UNCHANGED <<ret, entries, exitLog>>
  /\ Quiet

\* Lines 1071-1072 with the caller's list handed to the component.
PartialListShared(f, k) == f.out

\* The list that holds the partial solutions of component k (from 0).
PartialList(f, k) == f.partialSolutions + k + 1

RECURSIVE Flatten(_)
Flatten(buckets) ==
  IF buckets = <<>> THEN <<>> ELSE Head(buckets) \o Flatten(Tail(buckets))

\* Lines 1040-1073: the constraints and the type variables of one component
\* are made current and the component is solved in a scope of its own.
SolveComponent ==
  /\ At("solve", "component")
  /\ LET f == Frame
         k == f.component + 1
         s == [cs EXCEPT !.Constraints = @ \o f.constraintBuckets[k],
                         !.TypeVariables = ComponentTypeVariables(
                            cs.TypeVariables, f.typeVarComponent, f.component)]
     IN /\ cs' = EnterScope(s)
        /\ entries' = Append(entries, [s EXCEPT !.scopes = <<>>])
        /\ stack' = Append(
             SetFrame([f EXCEPT !.pc = "component_ret",
                                !.constraintBuckets[k] = <<>>,
                                !.allTypeVariables = cs.TypeVariables]),
             [proc |-> "solveSimplified", pc |-> "entry", out |-> PartialList(f, f.component),
              sizeAtCall |-> Len(lists[PartialList(f, f.component)])])
  /\ UNCHANGED <<lists, ret, exitLog>>
  /\ Quiet

\* Lines 1075-1089: the component failed; everything is put back.
SolveComponentFailed ==
  /\ At("solve", "component_ret")
  /\ ret
  /\ LET f == Frame
         s == ExitScope(cs)
         buckets == [f.constraintBuckets EXCEPT ![f.component + 1] = @ \o s.Constraints]
     IN /\ cs' = [s EXCEPT !.TypeVariables = f.allTypeVariables,
                           !.Constraints = Flatten(buckets)]
        /\ lists' = SubSeq(lists, 1, f.partialSolutions)
  /\ exitLog' = <<ExitRecord(TRUE)>>
  /\ entries' = PopEntry
  /\ stack' = Pop
  /\ ret' = TRUE
  /\ Quiet

\* Lines 1103-1106 with the operands of the subtraction exchanged.
SubtractScoreSwapped(solutions, score) ==
  [i \in 1..Len(solutions) |->
     [solutions[i] EXCEPT !.score = ScoreSub(score, @)]]

\* Lines 1103-1106: the current score is taken off each partial solution.
SubtractScore(solutions, score) ==
  [i \in 1..Len(solutions) |->
     [solutions[i] EXCEPT !.score = ScoreSub(@, score)]]

\* Lines 1075-1128: the component was solved.  After the last component the
\* constraints return to the active list and each list of partial solutions
\* is minimized.
SolveComponentSolved ==
  /\ At("solve", "component_ret")
  /\ ~ret
  /\ LET f == Frame
         s == ExitScope(cs)
         buckets == [f.constraintBuckets EXCEPT ![f.component + 1] = @ \o s.Constraints]
         last == f.component + 1 = f.numComponents
         p == PartialList(f, f.component)
         l1 == [lists EXCEPT ![p] = SubtractScore(@, s.CurrentScore)]
     IN /\ cs' = [s EXCEPT !.TypeVariables = f.allTypeVariables,
                           !.BestScore = f.PreviousBestScore,
                           !.Constraints = IF last THEN Flatten(buckets) ELSE <<>>]
        /\ lists' = IF last
                    THEN [i \in 1..Len(l1) |->
                            IF i > f.partialSolutions THEN KeepBest(l1[i], TRUE)
                            ELSE l1[i]]
                    ELSE l1
        /\ stack' = SetFrame([f EXCEPT !.constraintBuckets = buckets,
                                       !.component = @ + 1,
                                       !.found = IF last
                                                 THEN [k \in 1..f.numComponents |->
                                                         l1[f.partialSolutions + k]]
                                                 ELSE @,
                                       !.pc = IF last THEN "compose" ELSE "component"])
  /\ exitLog' = <<ExitRecord(FALSE)>>
  /\ entries' = PopEntry
  /\ UNCHANGED ret
  /\ Quiet

\* Lines 1138-1139 with the loop stopped after the first component.
ApplySolutionsFirst(s, f, ls, i) ==
  applySolution(s, ls[PartialList(f, 0)][f.indices[1] + 1])

\* Lines 1138-1139: the chosen partial solution of each component is applied.
RECURSIVE ApplySolutions(_, _, _, _)
ApplySolutions(s, f, ls, i) ==
  IF i > f.numComponents THEN s
  ELSE ApplySolutions(applySolution(s, ls[PartialList(f, i - 1)][f.indices[i] + 1]),
                      f, ls, i + 1)

\* Lines 1134-1156: one combination of partial solutions is applied in a new
\* scope and, unless it is worse than the best solution, finalized and saved.
SolveCompose ==
  /\ At("solve", "compose")
  /\ \E s \in {ApplySolutions(EnterScope(cs), Frame, lists, 1)} :
       IF ~worseThanBestSolution(s)
       THEN \E fin \in {finalize(s, allowFree)} :
              /\ cs' = fin.s
              /\ lists' = [lists EXCEPT ![Frame.out] = Append(@, fin.solution)]
              /\ event' = [kind |-> "finalize", path |-> "composed", list |-> Frame.out]
              /\ unreachableHit' = (unreachableHit \/ fin.unreachable)
              /\ stack' = SetFrame([Frame EXCEPT !.pc = "compose_next",
                                                 !.anySolutions = TRUE,
                                                 !.pushed = TRUE,
                                                 !.preScore = cs.CurrentScore,
                                                 !.tried = Append(@, Frame.indices)])
       ELSE /\ cs' = s
            /\ event' = Pruned("composed")
            /\ stack' = SetFrame([Frame EXCEPT !.pc = "compose_next",
                                               !.pushed = FALSE,
                                               !.preScore = cs.CurrentScore,
                                               !.tried = Append(@, Frame.indices)])
            /\ UNCHANGED <<lists, unreachableHit>>
  /\ entries' = PushEntry
  /\ UNCHANGED <<ret, allowFree, input, exitLog>>

\* Lines 1158-1175 with the test of line 1167 as n <= 2: the loop ends when
\* the second position runs out of solutions.
RECURSIVE NextCombinationEndsEarly(_, _, _)
NextCombinationEndsEarly(indices, sizes, n) ==
  LET bumped == [indices EXCEPT ![n] = @ + 1]
  IN IF bumped[n] < sizes[n] THEN [indices |-> bumped, done |-> FALSE]
     ELSE IF n <= 2 THEN [indices |-> bumped, done |-> TRUE]
     ELSE NextCombinationEndsEarly(
            [i \in 1..Len(indices) |-> IF i >= n THEN 0 ELSE bumped[i]],
            sizes, n - 1)

\* Lines 1158-1175: the next combination; n counts down from numComponents.
RECURSIVE NextCombination(_, _, _)
NextCombination(indices, sizes, n) ==
  LET bumped == [indices EXCEPT ![n] = @ + 1]
  IN IF bumped[n] < sizes[n] THEN [indices |-> bumped, done |-> FALSE]
     ELSE IF n = 1 THEN [indices |-> bumped, done |-> TRUE]
     ELSE NextCombination([i \in 1..Len(indices) |-> IF i >= n THEN 0 ELSE bumped[i]],
                          sizes, n - 1)

\* Lines 1157-1179: the scope of the combination ends; the loop goes on or
\* the call returns.
SolveComposeNext ==
  /\ At("solve", "compose_next")
  /\ LET f == Frame
         sizes == [i \in 1..f.numComponents |-> Len(lists[PartialList(f, i - 1)])]
         next == NextCombination(f.indices, sizes, f.numComponents)
     IN IF next.done
        THEN /\ stack' = Pop
             /\ ret' = ~f.anySolutions
             /\ lists' = SubSeq(lists, 1, f.partialSolutions)
        ELSE /\ stack' = SetFrame([f EXCEPT !.pc = "compose", !.indices = next.indices])
             /\ UNCHANGED <<ret, lists>>
  /\ cs' = ExitScope(cs)
  /\ exitLog' = <<ExitRecord(~Frame.pushed)>>
  /\ entries' = PopEntry
  /\ Quiet

-----------------------------------------------------------------------------
(* solveSimplified *)

Collected == collectConstraintsForTypeVariables(cs)

BestIndexOf(tvcs) == BestTypeVar(cs, tvcs, 2, 1)

\* Lines 1205-1216: the bindings of the best variable are tried when it has
\* any and either no disjunction is left or the bindings involve no type
\* variable and the variable is not fully bound.
BindsFirst(collected, bestBindings) ==
  IF bestBindings.Bindings = <<>> THEN FALSE
  ELSE IF collected.disjunctions = <<>> THEN TRUE
  ELSE ~bestBindings.InvolvesTypeVariables /\ ~bestBindings.FullyBound

\* Lines 1188-1216: whether the bindings of the best variable are tried.
TriesBindings(collected) ==
  IF collected.typeVarConstraints = <<>> THEN FALSE
  ELSE BindsFirst(collected,
         getPotentialBindings(cs,
           collected.typeVarConstraints[BestIndexOf(collected.typeVarConstraints)]))

SimplifiedBind ==
  /\ At("solveSimplified", "entry")
  /\ \E collected \in {Collected} :
       /\ TriesBindings(collected)
       /\ \E tvc \in {collected.typeVarConstraints[
                         BestIndexOf(collected.typeVarConstraints)]} :
            stack' = SetFrame(
              [proc |-> "tryTypeVariableBindings", pc |-> "bind", out |-> Frame.out,
               sizeAtCall |-> Frame.sizeAtCall,
               tvc |-> tvc,
               bindings |-> getPotentialBindings(cs, tvc).Bindings,
               i |-> 1, tryCount |-> 0, anySolved |-> FALSE,
               exploredTypes |-> {}, sawFirstLiteralConstraint |-> FALSE,
               solved |-> {},
               offered |-> getPotentialBindings(cs, tvc).Bindings])
  /\ UNCHANGED <<cs, lists, ret, entries, exitLog>>
  /\ Quiet

\* Lines 1230-1241.
anyNonConformanceConstraints(s) ==
  \E i \in 1..Len(s.Constraints) :
     s.Constraints[i].kind \notin {"ConformsTo", "SelfObjectOfProtocol", "TypeMember"}

\* Lines 1222-1260 without the scan of lines 1230-1241: any constraint may
\* be left over.
ResidualAcceptsAnyConstraint(s) ==
  /\ allowFree # Disallow
  /\ hasFreeTypeVariables(s)
  /\ ~worseThanBestSolution(s)

\* Lines 1222-1260: no disjunction is left.
ResidualAccepts(s) ==
  /\ allowFree # Disallow
  /\ hasFreeTypeVariables(s)
  /\ ~worseThanBestSolution(s)
  /\ ~anyNonConformanceConstraints(s)

SimplifiedResidual ==
  /\ At("solveSimplified", "entry")
  /\ \E collected \in {Collected} :
       /\ ~TriesBindings(collected)
       /\ collected.disjunctions = <<>>
  /\ IF ResidualAccepts(cs)
     THEN \E f \in {finalize(cs, allowFree)} :
            /\ cs' = f.s
            /\ lists' = [lists EXCEPT ![Frame.out] = Append(@, f.solution)]
            /\ ret' = FALSE
            /\ event' = [kind |-> "finalize", path |-> "residual", list |-> Frame.out]
            /\ unreachableHit' = (unreachableHit \/ f.unreachable)
     ELSE /\ ret' = TRUE
          /\ event' = IF allowFree # Disallow /\ hasFreeTypeVariables(cs)
                          /\ worseThanBestSolution(cs)
                       THEN Pruned("residual") ELSE NoEvent
          /\ UNCHANGED <<cs, lists, unreachableHit>>
  /\ stack' = Pop
  /\ UNCHANGED <<allowFree, input, entries, exitLog>>

\* Line 1265 alone: the first disjunction is taken, whatever its size.
PickDisjunctionFirst(disjunctions, i, best) == best

\* Lines 1265-1278: the smallest disjunction, the scan ending at size two.
RECURSIVE PickDisjunction(_, _, _)
PickDisjunction(disjunctions, i, best) ==
  IF i > Len(disjunctions) \/ Len(disjunctions[best].nested) <= 2 THEN best
  ELSE IF Len(disjunctions[i].nested) < Len(disjunctions[best].nested)
  THEN PickDisjunction(disjunctions, i + 1, i)
  ELSE PickDisjunction(disjunctions, i + 1, best)

\* The position after an erased element: the element that follows, or the
\* end of the list.
After(list, c) ==
  LET i == CHOOSE j \in 1..Len(list) : list[j] = c
  IN IF i = Len(list) THEN <<>> ELSE <<list[i + 1]>>

\* Line 1359 left out: the disjunction is not put back in the list.
InsertBeforeDropped(list, pos, c) == list

\* Constraints.insert(afterDisjunction, disjunction)
InsertBefore(list, pos, c) ==
  IF pos = <<>> \/ pos[1] \notin ToSet(list) THEN Append(list, c)
  ELSE LET i == CHOOSE j \in 1..Len(list) : list[j] = pos[1]
       IN SubSeq(list, 1, i - 1) \o <<c>> \o SubSeq(list, i, Len(list))

\* Lines 1262-1287: the disjunction leaves the list and the graph.
SimplifiedDisjunction ==
  /\ At("solveSimplified", "entry")
  /\ \E collected \in {Collected} :
       /\ ~TriesBindings(collected)
       /\ collected.disjunctions # <<>>
       /\ \E disjunction \in {collected.disjunctions[
                                 PickDisjunction(collected.disjunctions, 2, 1)]} :
            /\ cs' = [cs EXCEPT !.Constraints = Remove(@, disjunction),
                                !.CG = Remove(@, disjunction)]
            /\ stack' = SetFrame(
                 [proc |-> "solveSimplified", pc |-> "alt", out |-> Frame.out,
                  sizeAtCall |-> Frame.sizeAtCall,
                  disjunction |-> disjunction,
                  afterDisjunction |-> After(cs.Constraints, disjunction),
                  i |-> 1, anySolved |-> FALSE,
                  solved |-> {},
                  start |-> [cs' EXCEPT !.scopes = <<>>]])
  /\ UNCHANGED <<lists, ret, entries, exitLog>>
  /\ Quiet

\* Lines 1292-1297: once solved, an OptionalToOptional alternative ends the loop.
StopsBefore(f) ==
  IF f.i > Len(f.disjunction.nested) THEN TRUE
  ELSE IF f.anySolved
  THEN f.disjunction.nested[f.i].restriction = "OptionalToOptional"
  ELSE FALSE

\* Lines 1310-1328: the alternative is simplified and recorded as generated.
AssumeAlternative(s, constraint) ==
  LET r == simplifyConstraint(s, constraint)
      s1 == CASE r.kind = "Error" ->
                   [r.s EXCEPT !.failedConstraint = IF @ = <<>> THEN <<constraint>> ELSE @]
              [] r.kind = "Solved" -> r.s
              [] OTHER -> [r.s EXCEPT !.Constraints = Append(@, constraint),
                                      !.CG = Append(@, constraint)]
  IN RecordGenerated(s1, constraint)

\* Lines 1288-1330: one alternative is tried in a scope of its own.
DisjunctionTry ==
  /\ At("solveSimplified", "alt")
  /\ ~StopsBefore(Frame)
  /\ cs' = AssumeAlternative(EnterScope(cs), Frame.disjunction.nested[Frame.i])
  /\ entries' = PushEntry
  /\ stack' = Append(SetFrame([Frame EXCEPT !.pc = "alt_ret"]),
                     [proc |-> "solve", pc |-> "entry", out |-> Frame.out,
                      sizeAtCall |-> Len(lists[Frame.out])])
  /\ UNCHANGED <<lists, ret, exitLog>>
  /\ Quiet

\* Lines 1330-1350 without the two breaks: no alternative ends the loop.
StopsAfterNever(disjunction, constraint) == FALSE

\* Lines 1333-1349: the alternatives after which the enumeration stops.
StopsAfter(disjunction, constraint) ==
  \/ constraint.restriction = "TupleToTuple"
  \/ /\ disjunction.locator = "InterpolationArgument"
     /\ constraint.kind = "Conversion"

\* Lines 1330-1356: the recursive solve returned; the scope ends.
DisjunctionReturn ==
  /\ At("solveSimplified", "alt_ret")
  /\ LET f == Frame
         stop == ~ret /\ StopsAfter(f.disjunction, f.disjunction.nested[f.i])
     IN stack' = SetFrame([f EXCEPT !.anySolved = @ \/ ~ret,
                                    !.solved = IF ret THEN @ ELSE @ \cup {f.i},
                                    !.i = @ + 1,
                                    !.pc = IF stop THEN "finish" ELSE "alt"])
  /\ cs' = ExitScope(cs)
  /\ exitLog' = <<ExitRecord(ret)>>
  /\ entries' = PopEntry
  /\ UNCHANGED <<lists, ret>>
  /\ Quiet

\* Lines 1358-1363: the disjunction returns to its place.
DisjunctionDone ==
  /\ IF At("solveSimplified", "finish") THEN TRUE
     ELSE IF At("solveSimplified", "alt") THEN StopsBefore(Frame)
     ELSE FALSE
  /\ cs' = [cs EXCEPT !.Constraints = InsertBefore(@, Frame.afterDisjunction,
                                                   Frame.disjunction),
                      !.CG = Append(@, Frame.disjunction)]
  /\ stack' = Pop
  /\ ret' = ~Frame.anySolved
  /\ UNCHANGED <<lists, entries, exitLog>>
  /\ Quiet

-----------------------------------------------------------------------------
(* tryTypeVariableBindings *)

\* addConstraint(kind, first, second): the new constraint is simplified at
\* once.  Solved or failed, it goes to the front of the retired list; left
\* unsolved, it joins the active list and the graph.  It is recorded as
\* generated in the current scope.
addConstraint(s, c) ==
  LET r == simplifyConstraint(s, c)
      s1 == CASE r.kind = "Error" ->
                   [r.s EXCEPT !.failedConstraint = IF @ = <<>> THEN <<c>> ELSE @,
                               !.retiredConstraints = <<c>> \o @]
              [] r.kind = "Solved" -> [r.s EXCEPT !.retiredConstraints = <<c>> \o @]
              [] OTHER -> [r.s EXCEPT !.Constraints = Append(@, c),
                                      !.CG = Append(@, c)]
  IN RecordGenerated(s1, c)

\* Lines 826-833 without the break: a literal default is tried even after a
\* solution was found.
SkipsLiteralsNever(f) == FALSE

\* Lines 826-833: a literal default is reached after a solution was found.
SkipsLiterals(f) ==
  /\ f.bindings[f.i][2]
  /\ ~f.sawFirstLiteralConstraint
  /\ f.anySolved

\* Lines 810-838: the type of the binding, opened when it is a literal
\* default, is bound to the variable in a new scope.
BindCandidate(s, f) ==
  LET binding == f.bindings[f.i]
      type == IF ~canBindToLValue(f.tvc.TypeVar) THEN getRValueType(binding[1])
              ELSE binding[1]
      opened == IF binding[2] THEN openBindingType(EnterScope(s), type)
                ELSE [type |-> type, s |-> EnterScope(s)]
  IN addConstraint(opened.s, Constraint(0, "Bind", f.tvc.TypeVar, opened.type))

BindingTry ==
  /\ At("tryTypeVariableBindings", "bind")
  /\ Frame.i <= Len(Frame.bindings)
  /\ ~SkipsLiterals(Frame)
  /\ cs' = BindCandidate(cs, Frame)
  /\ entries' = PushEntry
  /\ stack' = Append(
       SetFrame([Frame EXCEPT !.pc = "bind_ret",
                              !.sawFirstLiteralConstraint = @ \/ Frame.bindings[Frame.i][2]]),
       [proc |-> "solve", pc |-> "entry", out |-> Frame.out,
        sizeAtCall |-> Len(lists[Frame.out])])
  /\ UNCHANGED <<lists, ret, exitLog>>
  /\ Quiet

\* Lines 829-833: the round stops at the first literal default.
BindingSkipLiterals ==
  /\ At("tryTypeVariableBindings", "bind")
  /\ Frame.i <= Len(Frame.bindings)
  /\ SkipsLiterals(Frame)
  /\ cs' = ExitScope(EnterScope(cs))
  /\ exitLog' = <<ScopeRecord(cs, EnterScope(cs), TRUE)>>
  /\ stack' = SetFrame([Frame EXCEPT !.pc = "round_end",
                                     !.sawFirstLiteralConstraint = TRUE])
  /\ UNCHANGED <<lists, ret, entries>>
  /\ Quiet

\* Lines 838-839 with anySolved assigned the result of the last candidate.
LastSolved(anySolved, failed) == ~failed

\* Lines 838-839: anySolved after a candidate whose solve returned failed.
AnySolved(anySolved, failed) == anySolved \/ ~failed

\* Lines 838-845: the recursive solve returned; the scope ends.
BindingReturn ==
  /\ At("tryTypeVariableBindings", "bind_ret")
  /\ stack' = SetFrame([Frame EXCEPT !.anySolved = AnySolved(@, ret),
                                     !.solved = IF ret THEN @ ELSE @ \cup {Frame.i},
                                     !.i = @ + 1,
                                     !.pc = "bind"])
  /\ cs' = ExitScope(cs)
  /\ exitLog' = <<ExitRecord(ret)>>
  /\ entries' = PopEntry
  /\ UNCHANGED <<lists, ret>>
  /\ Quiet

\* Lines 874 and 899 without the test of exploredTypes.insert: every
\* candidate is taken.
InsertAll(candidates, explored, new, open) ==
  [explored |-> explored \cup {getCanonicalType(candidates[i]) :
                                  i \in 1..Len(candidates)},
   newBindings |-> new \o [i \in 1..Len(candidates) |-> <<candidates[i], open>>]]

\* exploredTypes.insert over a list of candidates: the ones that are new.
RECURSIVE InsertNew(_, _, _, _)
InsertNew(candidates, explored, new, open) ==
  IF candidates = <<>> THEN [explored |-> explored, newBindings |-> new]
  ELSE LET type == Head(candidates)
       IN IF getCanonicalType(type) \in explored
          THEN InsertNew(Tail(candidates), explored, new, open)
          ELSE InsertNew(Tail(candidates), explored \cup {getCanonicalType(type)},
                         Append(new, <<type, open>>), open)

\* Lines 864-877: the alternative literal types of the protocols that have a
\* default type.
AlternativeCandidates(tvc) ==
  Flatten([i \in 1..Len(tvc.ConformsToConstraints) |->
             IF getDefaultType(tvc.ConformsToConstraints[i].second) = None THEN <<>>
             ELSE getAlternativeLiteralTypes(tvc.ConformsToConstraints[i].second)])

\* Lines 889-902: the permitted direct supertypes of the types just tried.
SupertypeCandidates(s, f) ==
  Flatten([i \in 1..Len(f.bindings) |->
     LET supers == enumerateDirectSupertypes(f.bindings[i][1])
         checked == [j \in 1..Len(supers) |->
                       checkTypeOfBinding(s, f.tvc.TypeVar, supers[j])]
     IN SelectSeq(checked, LAMBDA x : x # None)])

\* Lines 851-910: the bindings of the next round, empty when there is none.
NextRound(s, f) ==
  LET explored == IF f.tryCount = 0
                  THEN f.exploredTypes \cup
                       {getCanonicalType(f.bindings[i][1]) : i \in 1..Len(f.bindings)}
                  ELSE f.exploredTypes
      literals == IF f.tryCount = 0
                  THEN InsertNew(AlternativeCandidates(f.tvc), explored, <<>>, TRUE)
                  ELSE [explored |-> explored, newBindings |-> <<>>]
  IN IF literals.newBindings # <<>> THEN literals
     ELSE InsertNew(SupertypeCandidates(s, f), explored, <<>>, FALSE)

AtRoundEnd ==
  IF At("tryTypeVariableBindings", "round_end") THEN TRUE
  ELSE At("tryTypeVariableBindings", "bind") /\ Frame.i > Len(Frame.bindings)

\* Lines 847-849, 904-906 and 913: the search for this variable ends.
BindingDone ==
  /\ AtRoundEnd
  /\ IF Frame.anySolved THEN TRUE ELSE NextRound(cs, Frame).newBindings = <<>>
  /\ stack' = Pop
  /\ ret' = ~Frame.anySolved
  /\ UNCHANGED <<cs, lists, entries, exitLog>>
  /\ Quiet

\* Lines 879-885 and 908-910: a new set of bindings for the next round.
BindingNextRound ==
  /\ AtRoundEnd
  /\ ~Frame.anySolved
  /\ \E next \in {NextRound(cs, Frame)} :
       /\ next.newBindings # <<>>
       /\ stack' = SetFrame([Frame EXCEPT
                               !.bindings = next.newBindings,
                               !.exploredTypes = next.explored,
                               !.i = 1,
                               !.tryCount = @ + 1,
                               !.sawFirstLiteralConstraint = FALSE,
                               !.solved = {},
                               !.offered = @ \o next.newBindings,
                               !.pc = "bind"])
  /\ UNCHANGED <<cs, lists, ret, entries, exitLog>>
  /\ Quiet

-----------------------------------------------------------------------------

Next ==
  \/ TopCall
  \/ TopReturn
  \/ SolveFail
  \/ SolveLeaf
  \/ SolveWhole
  \/ SolveSplit
  \/ SolveComponent
  \/ SolveComponentFailed
  \/ SolveComponentSolved
  \/ SolveCompose
  \/ SolveComposeNext
  \/ SimplifiedBind
  \/ SimplifiedResidual
  \/ SimplifiedDisjunction
  \/ DisjunctionTry
  \/ DisjunctionReturn
  \/ DisjunctionDone
  \/ BindingTry
  \/ BindingSkipLiterals
  \/ BindingReturn
  \/ BindingDone
  \/ BindingNextRound

Spec == Init /\ [][Next]_vars

-----------------------------------------------------------------------------
(* The end of the top-level call (lines 928-940) over every list of          *)
(* solutions the search may hand it.                                         *)

\* The largest number of solutions in the list handed to the ranking step.
MaxSolutions == 3

CandidateScores == {<<0, 0>>, <<0, 1>>, <<1, 0>>}

CandidateSolutions ==
  {[typeBindings |-> [v \in {"$1"} |-> t], overloadChoices |-> <<>>,
    constraintRestrictions |-> <<>>, score |-> score] :
     t \in {"Int", "String"}, score \in CandidateScores}

SolutionLists ==
  UNION {[1..n -> CandidateSolutions] : n \in 0..MaxSolutions}

RankInit ==
  /\ cs = [InitialSystem(<<>>) EXCEPT !.solverState = TRUE]
  /\ allowFree \in {Disallow, Allow, GenericParameters}
  /\ input = cs.TypeVariables
  /\ stack = <<[proc |-> "top", pc |-> "returned"]>>
  /\ lists \in {<<l>> : l \in SolutionLists}
  /\ ret = FALSE
  /\ entries = <<>>
  /\ exitLog = <<>>
  /\ event = NoEvent
  /\ unreachableHit = FALSE

RankNext == TopReturn

RankSpec == RankInit /\ [][RankNext]_vars

-----------------------------------------------------------------------------
(* The composition loop (lines 1130-1179) over lists of partial solutions    *)
(* that hold several solutions each.  findBestSolution(minimize) leaves      *)
(* several solutions in a list when none is strictly better than the others. *)

\* The largest number of partial solutions of one component.
MaxPartials == 3

\* Independent systems of two and of three type variables.
ComposeSystems ==
  {<<Universe[1], Universe[2]>>, <<Universe[1], Universe[2], Universe[6]>>}

\* Partial solution i of the component of variable v; the solutions of a
\* list have equal scores.
PartialSolution(v, i) ==
  [typeBindings |-> [w \in {v} |-> <<"Int", "Double", "String", "Sub", "Super">>[i]],
   overloadChoices |-> <<>>,
   constraintRestrictions |-> <<>>, score |-> <<0, 1>>]

\* The frame of solve when the composition loop starts (lines 1131-1133).
ComposeFrame(s, partials) ==
  [proc |-> "solve", pc |-> "compose", out |-> 1, sizeAtCall |-> 0,
   numComponents |-> Len(partials),
   typeVarComponent |-> ComponentOf(s),
   constraintBuckets |->
     [k \in 1..Len(partials) |->
        SelectSeq(s.Constraints, LAMBDA c : ConstraintComponent(s, c) = k - 1)],
   component |-> Len(partials),
   allTypeVariables |-> s.TypeVariables,
   PreviousBestScore |-> s.BestScore,
   partialSolutions |-> 1,
   indices |-> [k \in 1..Len(partials) |-> 0],
   anySolutions |-> FALSE,
   pushed |-> FALSE,
   preScore |-> ZeroScore,
   found |-> partials,
   tried |-> <<>>,
   recorded |-> 0,
   atSplit |-> [TypeVariables |-> s.TypeVariables, Constraints |-> s.Constraints]]

\* The system is as it is when the last component has been solved (line
\* 1113): nothing on the worklist, every constraint in the active list.
ComposeInit ==
  /\ \E system \in ComposeSystems :
       \E sizes \in [1..Len(system) -> 1..MaxPartials] :
         \E partials \in {[k \in 1..Len(system) |->
                             [i \in 1..sizes[k] |->
                                PartialSolution(SystemTypeVars(system)[k], i)]]} :
           /\ cs = [InitialSystem(system) EXCEPT !.solverState = TRUE,
                                                 !.Worklist = <<>>,
                                                 !.active = {}]
           /\ stack = <<[proc |-> "top", pc |-> "returned"],
                        ComposeFrame(cs, partials)>>
           /\ lists = << <<>> >> \o partials
  /\ allowFree \in {Disallow, Allow, GenericParameters}
  /\ input = cs.TypeVariables
  /\ ret = FALSE
  /\ entries = <<>>
  /\ exitLog = <<>>
  /\ event = NoEvent
  /\ unreachableHit = FALSE

ComposeNext ==
  \/ SolveCompose
  \/ SolveComposeNext

ComposeSpec == ComposeInit /\ [][ComposeNext]_vars

-----------------------------------------------------------------------------
(* The two branching steps of the search over inputs of their own:           *)
(* disjunction branching (lines 1262-1364) over systems of disjunctions of   *)
(* one to MaxAlternatives alternatives, with the restrictions and the        *)
(* locator that end the enumeration early; and binding enumeration (lines    *)
(* 677-914) over bounds that are tuples, l-values and generic types of type  *)
(* variables, and over two variables linked by a subtype constraint.  No     *)
(* system splits into components.                                            *)

\* The largest number of alternatives of a disjunction.
MaxAlternatives == 3

\* Alternative i of disjunction d: a conversion between concrete types that
\* the simplifier solves (Int to Int) or rejects (Int to String).
Alternative(d, i, second, restriction) ==
  [Constraint(100 * d + i, "Conversion", "Int", second)
     EXCEPT !.restriction = restriction]

\* The bounds of $0 that the candidate bindings are drawn from: tuples and
\* l-values of a concrete type, of another variable and of $0 itself, a
\* generic type of $0, a class with a superclass; and the conformances that
\* make a candidate fail or add a literal default.
Bounds ==
  << Constraint(31, "Conversion", "$0", TupleOf("Int")),
     Constraint(32, "Conversion", "$0", TupleOf("$1")),
     Constraint(33, "Conversion", "$0", TupleOf("$0")),
     Constraint(34, "Subtype", ArrayOf("$0"), "$0"),
     Constraint(35, "Subtype", "Sub", "$0"),
     Constraint(36, "ConformsTo", "$0", "Printable"),
     Constraint(37, "Subtype", TupleOf("$1"), "$0"),
     Constraint(38, "Subtype", LValueOf("Int"), "$0"),
     Constraint(39, "Subtype", LValueOf("$1"), "$0"),
     Constraint(40, "Subtype", "$0", "Double"),
     Constraint(41, "ConformsTo", "$0", "IntegerLiteral"),
     Constraint(42, "Subtype", "$0", TupleOf("$1")) >>

\* Two variables of one component ($0 below $1, item 12 of Universe), with
\* two or three of the bounds and the literal conformance Universe has for
\* them: the systems in which solveSimplified has a choice of variable.
LinkedSystems ==
  {SystemOf(S \cup {12}) :
     S \in {T \in SUBSET {1, 2, 3, 11, 15} : Cardinality(T) \in 2..3}}

\* One disjunction of two or three alternatives, alone or after a lower
\* bound of $0 (item 1 of Universe); each alternative is an overload that
\* binds $0 or an upper bound of $0, which the simplifier leaves unsolved: it
\* joins the active list and the graph as a constraint generated in the
\* scope of the alternative.
UnsolvedAlternatives ==
  {bounds \o
   <<Disjunction(30, "L1",
                 [i \in 1..n |->
                    IF alts[i] = "bound" THEN Constraint(300 + i, "Subtype", "$0", "Int")
                    ELSE Overload(300 + i, "L1", "$0", alts[i])])>> :
     <<bounds, n, alts>> \in
       UNION {{<<b, m, a>> : b \in {<<>>, <<Universe[1]>>},
                             a \in [1..m -> {"Int", "Double", "bound"}]} :
              m \in 2..3}}

\* One disjunction whose alternatives succeed or fail and carry a
\* restriction or none, under either locator; or two or three disjunctions
\* of different sizes, whose first alternatives all carry the given
\* restriction; or one or two bounds of $0; or two linked variables; or a
\* disjunction with alternatives that stay unsolved.
BranchSystems ==
  LinkedSystems \cup UnsolvedAlternatives
  \cup
  {SelectSeq(Bounds, LAMBDA c : c.id \in ids) :
     ids \in {S \in SUBSET (31..42) : Cardinality(S) \in 1..2}}
  \cup
  {<<Disjunction(20, locator,
                 [i \in 1..n |-> Alternative(20, i, alts[i][1], alts[i][2])])>> :
     <<n, locator, alts>> \in
       UNION {{<<m, loc, a>> :
                 loc \in {"L1", "InterpolationArgument"},
                 a \in [1..m -> {"Int", "String"} \X
                                {None, "TupleToTuple", "OptionalToOptional"}]} :
              m \in 1..MaxAlternatives}}
  \cup
  {[d \in 1..m |-> Disjunction(20 + d, "L1",
                     [i \in 1..sizes[d] |->
                        Alternative(20 + d, i, "Int",
                                    IF i = 1 THEN restriction ELSE None)])] :
     <<m, sizes, restriction>> \in
       UNION {{<<k, z, r>> : z \in [1..k -> 1..MaxAlternatives],
                             r \in {None, "TupleToTuple"}} :
              k \in 2..3}}

BranchInit ==
  /\ \E system \in BranchSystems : cs = InitialSystem(system)
  /\ allowFree = Disallow
  /\ input = cs.TypeVariables
  /\ stack = <<[proc |-> "top", pc |-> "call"]>>
  /\ lists = << <<>> >>
  /\ ret = FALSE
  /\ entries = <<>>
  /\ exitLog = <<>>
  /\ event = NoEvent
  /\ unreachableHit = FALSE

BranchNext ==
  \/ TopCall
  \/ TopReturn
  \/ SolveFail
  \/ SolveLeaf
  \/ SolveWhole
  \/ SimplifiedBind
  \/ SimplifiedResidual
  \/ SimplifiedDisjunction
  \/ DisjunctionTry
  \/ DisjunctionReturn
  \/ DisjunctionDone
  \/ BindingTry
  \/ BindingSkipLiterals
  \/ BindingReturn
  \/ BindingDone
  \/ BindingNextRound

BranchSpec == BranchInit /\ [][BranchNext]_vars

(* The solver is a sequential program: until the top-level call has returned *)
(* it keeps taking steps.  This is weak fairness of Next, with "Next is      *)
(* enabled" written as "the top-level call has not returned".                *)
LiveSpec == Spec /\ ([]<>At("top", "done") \/ []<><<Next>>_vars)

-----------------------------------------------------------------------------
(* Claims *)

\* C1: the top-level call returns success exactly when the list holds one
\* solution after the ranking step: no solution found is failure, one is
\* success, several are success when one of them is uniquely best (it alone
\* is kept) and failure otherwise (the list is left as found).
C1_TopLevelReturn ==
  At("top", "done") =>
    LET found == Frame.accumulated
    IN /\ ret = (Len(lists[1]) # 1)
       /\ found = <<>> => ret /\ lists[1] = <<>>
       /\ Len(found) = 1 => ~ret /\ lists[1] = found
       /\ Len(found) > 1 =>
            IF BestIndex(found) # 0
            THEN ~ret /\ lists[1] = <<found[BestIndex(found)]>>
            ELSE ret /\ lists[1] = found

\* Several solutions were found and the best one, not the first, was kept.
C1_BestKept ==
  /\ At("top", "done")
  /\ Len(Frame.accumulated) > 1
  /\ ~ret
  /\ lists[1][1] # Frame.accumulated[1]

\* The solution the last step recorded.
Recorded == lists[event.list][Len(lists[event.list])]

\* C2 as stated: every solution finalize records binds every variable of the
\* full TypeVariables list of the system, each binding is the simplified
\* type of the variable in the finalized state, and under Disallow no
\* binding mentions a type variable.
C2_FullTypeBindings ==
  event.kind = "finalize" =>
    /\ ToSet(input) \subseteq DOMAIN Recorded.typeBindings
    /\ \A v \in DOMAIN Recorded.typeBindings :
          /\ Recorded.typeBindings[v] = simplifyType(cs, v)
          /\ allowFree = Disallow => ~hasTypeVariable(Recorded.typeBindings[v])

\* C2 amended: the variables bound are those of the TypeVariables list at
\* finalization, which inside a component is restricted to the component;
\* a solution recorded in the caller's list binds every input variable.
C2_CurrentTypeBindings ==
  event.kind = "finalize" =>
    /\ DOMAIN Recorded.typeBindings = ToSet(cs.TypeVariables)
    /\ event.list = 1 => ToSet(input) \subseteq DOMAIN Recorded.typeBindings
    /\ \A v \in DOMAIN Recorded.typeBindings :
          /\ Recorded.typeBindings[v] = simplifyType(cs, v)
          /\ allowFree = Disallow => ~hasTypeVariable(Recorded.typeBindings[v])

\* A partial solution of one component was recorded: it leaves out a
\* variable of another component.
C2_PartialRecorded ==
  /\ event.kind = "finalize"
  /\ event.list > 1
  /\ ~(ToSet(input) \subseteq DOMAIN Recorded.typeBindings)

\* C3: when a scope ends, every type variable has the representative and the
\* fixed type it had when the scope began, the lengths of TypeVariables,
\* savedBindings and constraintRestrictions and the resolved overloads are
\* those recorded at its beginning, and so is CurrentScore.
C3_ScopeRestoresBindings ==
  exitLog # <<>> =>
    LET e == exitLog[1]
    IN /\ e.post.store = e.pre.store
       /\ Len(e.post.TypeVariables) = Len(e.pre.TypeVariables)
       /\ Len(e.post.savedBindings) = Len(e.pre.savedBindings)
       /\ Len(e.post.constraintRestrictions) = Len(e.pre.constraintRestrictions)
       /\ e.post.resolvedOverloadSets = e.pre.resolvedOverloadSets
       /\ e.post.CurrentScore = e.pre.CurrentScore

\* A scope ended in which one variable was changed twice.
C3_ChangedTwice ==
  /\ exitLog # <<>>
  /\ \E i, j \in 1..Len(exitLog[1].saved) :
        i < j /\ exitLog[1].saved[i].tv = exitLog[1].saved[j].tv

\* C4: when a scope ends, no constraint generated in it is in the active
\* list, the constraints retired since it began are back in the active list
\* unless they were generated in it, and the retired list is the one the
\* scope began with.
C4_ScopeRestoresConstraints ==
  exitLog # <<>> =>
    LET e == exitLog[1]
    IN /\ ToSet(e.post.Constraints) \cap e.generated = {}
       /\ ToSet(e.post.Constraints) =
            (ToSet(e.active) \cup ToSet(e.retired)) \ e.generated
       /\ e.post.retiredConstraints = e.pre.retiredConstraints
       /\ ToSet(e.retired) \cap ToSet(e.pre.retiredConstraints) = {}

\* A scope ended that had retired a constraint it generated and a constraint
\* it did not generate, and that began with a retired constraint.
C4_GeneratedRetired ==
  /\ exitLog # <<>>
  /\ ToSet(exitLog[1].retired) \cap exitLog[1].generated # {}
  /\ ToSet(exitLog[1].retired) \ exitLog[1].generated # {}
  /\ exitLog[1].pre.retiredConstraints # <<>>

\* What a scope is said to leave unchanged besides the active list.
SameOutsideActiveList(e) ==
  /\ e.post.store = e.pre.store
  /\ e.post.resolvedOverloadSets = e.pre.resolvedOverloadSets
  /\ e.post.constraintRestrictions = e.pre.constraintRestrictions
  /\ e.post.CurrentScore = e.pre.CurrentScore
  /\ e.post.CG = e.pre.CG

\* C5 as stated: after a scope that ends in failure the active list is the
\* same sequence as before the scope, and the substitution, the resolved
\* overloads, the restrictions, the score and the graph are the same.
C5_ScopeRoundTripInOrder ==
  (exitLog # <<>> /\ exitLog[1].failed) =>
    /\ exitLog[1].post.Constraints = exitLog[1].pre.Constraints
    /\ SameOutsideActiveList(exitLog[1])

\* C5 amended: the active list holds the same constraints as before the
\* scope, each once, in an order that may differ.
C5_ScopeRoundTrip ==
  (exitLog # <<>> /\ exitLog[1].failed) =>
    /\ ToSet(exitLog[1].post.Constraints) = ToSet(exitLog[1].pre.Constraints)
    /\ Len(exitLog[1].post.Constraints) = Len(exitLog[1].pre.Constraints)
    /\ SameOutsideActiveList(exitLog[1])

\* A failed scope ended that had changed the substitution, the score and
\* the order of the active list.
C5_FailedScopeReordered ==
  /\ exitLog # <<>>
  /\ exitLog[1].failed
  /\ exitLog[1].saved # <<>>
  /\ exitLog[1].post.Constraints # exitLog[1].pre.Constraints

\* C6: with allowFree = Disallow, finalize is reached on none of its three
\* paths while a variable of TypeVariables has no fixed type: the abort
\* "Solver left free type variables" is never reached.
C6_NoFreeVariablesAtFinalize ==
  allowFree = Disallow =>
    /\ ~unreachableHit
    /\ event.kind = "finalize" =>
          \A i \in 1..Len(cs.TypeVariables) :
             getFixedType(cs, cs.TypeVariables[i]) # None

\* Under Disallow a composed solution was finalized.
C6_ComposedUnderDisallow ==
  /\ allowFree = Disallow
  /\ event.kind = "finalize"
  /\ event.path = "composed"

\* C7 as stated: when the two alternatives of an overload disjunction each
\* give a complete solution and the two have equal scores, both solutions are
\* in the list the top-level call leaves and the call returns failure.
C7_AmbiguityReported ==
  (At("top", "done") /\ cs.Constraints = <<Universe[5]>>) =>
    /\ ret
    /\ Len(lists[1]) = 2
    /\ lists[1][1].score = lists[1][2].score

\* The sum of the scores of the partial solutions of a combination.
RECURSIVE ChosenScore(_, _, _)
ChosenScore(f, ls, i) ==
  IF i > f.numComponents THEN ZeroScore
  ELSE ScoreAdd(ls[PartialList(f, i - 1)][f.indices[i] + 1].score,
                ChosenScore(f, ls, i + 1))

\* C8: once the partial solutions of a combination are applied, CurrentScore
\* is the score at the opening of the composition scope plus the scores of
\* the partial solutions chosen, and that is the score of the composed
\* solution that is recorded.
C8_ComposedScore ==
  At("solve", "compose_next") =>
    /\ cs.CurrentScore = ScoreAdd(Frame.preScore, ChosenScore(Frame, lists, 1))
    /\ Frame.pushed =>
          lists[Frame.out][Len(lists[Frame.out])].score =
            ScoreAdd(Frame.preScore, ChosenScore(Frame, lists, 1))

\* A composed solution was recorded in a branch that had a score, from a
\* partial solution with a score.
C8_ScoredPartialComposed ==
  /\ At("solve", "compose_next")
  /\ Frame.pushed
  /\ Frame.preScore # ZeroScore
  /\ ChosenScore(Frame, lists, 1) # ZeroScore

\* a is no smaller than b in any counter.
Dominates(a, b) == a[1] >= b[1] /\ a[2] >= b[2]

\* C9: a step that closes no scope never lowers CurrentScore, so the score
\* is at least the score at the entry of every open scope, and so is the
\* score of every solution recorded; a branch is pruned only with a score
\* that is not better than the best score.
C9_ScoreNeverDecreases ==
  [][/\ Len(cs'.scopes) >= Len(cs.scopes) =>
          Dominates(cs'.CurrentScore, cs.CurrentScore)
     /\ \A i \in 1..Len(cs'.scopes) :
          Dominates(cs'.CurrentScore, cs'.scopes[i].PreviousScore)
     /\ event'.kind = "finalize" =>
          \A i \in 1..Len(cs'.scopes) :
             Dominates(Recorded'.score, cs'.scopes[i].PreviousScore)
     /\ event'.kind = "pruned" =>
          /\ cs'.BestScore # <<>>
          /\ ~ScoreLess(cs'.CurrentScore, cs'.BestScore[1])]_vars

\* A branch that had raised the score was pruned.
C9_RaisedBranchPruned ==
  /\ event.kind = "pruned"
  /\ cs.scopes # <<>>
  /\ cs.CurrentScore # cs.scopes[1].PreviousScore

\* The combinations of one solution per component out of the lists ls.
Combinations(f, ls) ==
  {idx \in [1..f.numComponents -> 0..MaxConstraints * 2] :
     \A k \in 1..f.numComponents : idx[k] < Len(ls[PartialList(f, k - 1)])}

\* The solution composed of the combination idx, from the state the
\* composition loop starts in.
Composed(f, ls, idx) ==
  finalize(ApplySolutions(EnterScope(ExitScope(cs)), [f EXCEPT !.indices = idx],
                          ls, 1),
           allowFree).solution

\* The combination a comes before the combination b in the loop's order.
Earlier(a, b) ==
  \E k \in DOMAIN a : a[k] < b[k] /\ \A j \in 1..(k - 1) : a[j] = b[j]

\* The solutions this call has added to the caller's list.
RecordedHere(f) ==
  {lists[f.out][i] : i \in (f.recorded + 1)..Len(lists[f.out])}

\* Score pruning stops the combination idx: its score is not better than the
\* best score known before the components were solved, or than the score of
\* a solution recorded from an earlier combination.
PrunedByScore(f, ls, idx) ==
  \/ /\ f.PreviousBestScore # <<>>
     /\ ~ScoreLess(Composed(f, ls, idx).score, f.PreviousBestScore[1])
  \/ \E e \in Combinations(f, ls) :
       /\ Earlier(e, idx)
       /\ Composed(f, ls, e) \in RecordedHere(f)
       /\ ~ScoreLess(Composed(f, ls, idx).score, Composed(f, ls, e).score)

\* The solutions recorded are the combinations of the lists ls that score
\* pruning does not stop.
ProductFilteredByScore(f, ls) ==
  /\ \A r \in RecordedHere(f) :
        \E idx \in Combinations(f, ls) : r = Composed(f, ls, idx)
  /\ \A idx \in Combinations(f, ls) :
        (Composed(f, ls, idx) \in RecordedHere(f)) = ~PrunedByScore(f, ls, idx)

\* The solution lists with the lists of partial solutions as they were found.
WithFound(f, ls) ==
  [i \in 1..Len(ls) |->
     IF i > f.partialSolutions /\ i <= f.partialSolutions + f.numComponents
     THEN f.found[i - f.partialSolutions] ELSE ls[i]]

\* The composition loop has tried its last combination.
LastCombination ==
  /\ At("solve", "compose_next")
  /\ NextCombination(Frame.indices,
                     [i \in 1..Frame.numComponents |->
                        Len(lists[PartialList(Frame, i - 1)])],
                     Frame.numComponents).done

\* C10 as stated: when the graph splits into two or more components, the
\* solutions the call records are the combinations of the solutions found
\* for each component, less only those that score pruning stops.
C10_ProductOfFound ==
  LastCombination => ProductFilteredByScore(Frame, WithFound(Frame, lists))

\* C10 amended: of the solutions found for a component only those that no
\* other solution of the component beats take part; the solutions recorded
\* are the combinations of these, each tried once, less those that score
\* pruning stops.
C10_ProductOfMinimized ==
  LastCombination =>
    /\ \A k \in 1..Frame.numComponents :
          /\ lists[PartialList(Frame, k - 1)] # <<>>
          /\ ToSet(lists[PartialList(Frame, k - 1)]) =
               {x \in ToSet(Frame.found[k]) :
                  \A y \in ToSet(Frame.found[k]) : ~ScoreLess(y.score, x.score)}
    /\ ToSet(Frame.tried) = Combinations(Frame, lists)
    /\ Len(Frame.tried) = Cardinality(Combinations(Frame, lists))
    /\ ProductFilteredByScore(Frame, lists)

\* A composition ended with a solution recorded after a solution found for
\* a component had been dropped from the component's list.
C10_FoundDropped ==
  /\ LastCombination
  /\ RecordedHere(Frame) # {}
  /\ \E k \in 1..Frame.numComponents :
        Len(Frame.found[k]) > Len(lists[PartialList(Frame, k - 1)])

\* The partial solution of component k (from 1) that the combination uses.
ChosenPartial(f, k) == lists[PartialList(f, k - 1)][f.indices[k] + 1]

\* Two components were solved and each gave exactly one partial solution.
TwoSinglePartials ==
  /\ LastCombination
  /\ Frame.numComponents = 2
  /\ \A k \in 1..2 : Len(Frame.found[k]) = 1

\* C11 as stated: when the graph has two components and each gives exactly
\* one partial solution, the call records exactly one composed solution, and
\* it binds every variable of a partial solution to the type that partial
\* solution gives it, and no other variable.
C11_UnionOfBindings ==
  TwoSinglePartials =>
    /\ Len(lists[Frame.out]) = Frame.recorded + 1
    /\ LET composed == lists[Frame.out][Len(lists[Frame.out])]
       IN /\ DOMAIN composed.typeBindings =
               DOMAIN ChosenPartial(Frame, 1).typeBindings
                 \cup DOMAIN ChosenPartial(Frame, 2).typeBindings
          /\ \A k \in 1..2 :
               \A v \in DOMAIN ChosenPartial(Frame, k).typeBindings :
                  composed.typeBindings[v] = ChosenPartial(Frame, k).typeBindings[v]

\* C11 amended: the composed solution takes from a partial solution the
\* bindings that mention no type variable; a variable whose partial binding
\* mentions one is bound as the composed state has it.  Under Disallow every
\* binding of the partial solutions is taken.
C11_TwoComponentsComposed ==
  TwoSinglePartials =>
    /\ Len(lists[Frame.out]) = Frame.recorded + 1
    /\ LET composed == lists[Frame.out][Len(lists[Frame.out])]
       IN /\ DOMAIN composed.typeBindings =
               DOMAIN ChosenPartial(Frame, 1).typeBindings
                 \cup DOMAIN ChosenPartial(Frame, 2).typeBindings
          /\ \A k \in 1..2 :
               \A v \in DOMAIN ChosenPartial(Frame, k).typeBindings :
                  IF hasTypeVariable(ChosenPartial(Frame, k).typeBindings[v])
                  THEN /\ allowFree # Disallow
                       /\ composed.typeBindings[v] = simplifyType(cs, v)
                  ELSE composed.typeBindings[v] =
                         ChosenPartial(Frame, k).typeBindings[v]

\* Two components gave one partial solution each, binding different variables
\* to different types, and the composed solution was recorded.
C11_TwoPartialsJoined ==
  /\ TwoSinglePartials
  /\ Frame.pushed
  /\ \E v \in DOMAIN ChosenPartial(Frame, 1).typeBindings :
       \E w \in DOMAIN ChosenPartial(Frame, 2).typeBindings :
          /\ v \notin DOMAIN ChosenPartial(Frame, 2).typeBindings
          /\ w \notin DOMAIN ChosenPartial(Frame, 1).typeBindings
          /\ ChosenPartial(Frame, 1).typeBindings[v] #
               ChosenPartial(Frame, 2).typeBindings[w]

\* C12 as stated: once simplify() has returned, a second call with nothing
\* changed in between finds no constraint on the worklist, so it runs the
\* simplifier on no constraint, and it leaves the system as it is.
C12_SimplifyIdempotent ==
  (At("solve", "entry") /\ cs.failedConstraint = <<>>) =>
    /\ simplify(cs).s.Worklist = <<>>
    /\ simplify(simplify(cs).s).s = simplify(cs).s

\* The canonical types of a list of bindings.
CanonicalTypes(bindings) ==
  {getCanonicalType(bindings[i][1]) : i \in 1..Len(bindings)}

\* C13: the top-level call of solve returns, and every recursive call with
\* it; each new round of tryTypeVariableBindings is made of candidate types
\* that no earlier round of the call explored, each once.
C13_SolveReturns ==
  /\ <>At("top", "done")
  /\ [][BindingNextRound =>
          /\ Frame'.bindings # <<>>
          /\ CanonicalTypes(Frame'.bindings)
               \cap (Frame.exploredTypes \cup CanonicalTypes(Frame.bindings)) = {}
          /\ Cardinality(CanonicalTypes(Frame'.bindings)) = Len(Frame'.bindings)
          /\ CanonicalTypes(Frame.bindings) \cup Frame.exploredTypes
               \subseteq Frame'.exploredTypes]_vars

\* A binding search is at the end of a later round with no solution found and
\* no candidate left for another round.
C13_LastRoundFailed ==
  /\ AtRoundEnd
  /\ Frame.tryCount >= 1
  /\ ~Frame.anySolved
  /\ NextRound(cs, Frame).newBindings = <<>>

\* The list a begins the list b.
IsPrefix(a, b) == Len(a) <= Len(b) /\ SubSeq(b, 1, Len(a)) = a

\* The list b is the list a with some solutions left out.
IsSublist(a, b) ==
  /\ Len(b) <= Len(a)
  /\ \A i \in 1..Len(b) : \E j \in i..Len(a) : a[j] = b[i]

\* C14: a step of the search leaves every solution of every list in place:
\* a list only grows.  The exceptions are the selection of the best solution
\* when the top-level search has returned, and what a call does to the lists
\* of partial solutions it owns once a component is solved (the scores are
\* rebased, and after the last component each list is minimized); a call
\* that returns drops the lists it owns and no other.
C14_ListsOnlyGrow ==
  [][/\ \A l \in 1..Len(lists) :
          l <= Len(lists') =>
            \/ IsPrefix(lists[l], lists'[l])
            \/ /\ l = 1
               /\ At("top", "returned")
               /\ IsSublist(lists[l], lists'[l])
            \/ /\ At("solve", "component_ret")
               /\ ~ret
               /\ l > Frame.partialSolutions
               /\ IsSublist([i \in 1..Len(lists[l]) |->
                               [lists[l][i] EXCEPT !.score = 0]],
                            [i \in 1..Len(lists'[l]) |->
                               [lists'[l][i] EXCEPT !.score = 0]])
     /\ Len(lists') < Len(lists) =>
          /\ Frame.proc = "solve"
          /\ Len(lists') = Frame.partialSolutions
          /\ Len(lists') >= 1]_vars

\* A branch was pruned by its score while a list held a solution.
C14_PrunedWithSolutions ==
  /\ event.kind = "pruned"
  /\ lists[1] # <<>>

\* A sibling attempt is about to start: a binding, an alternative of a
\* disjunction, a component or a combination of partial solutions.
AttemptStarts ==
  \/ At("tryTypeVariableBindings", "bind")
  \/ At("solveSimplified", "alt")
  \/ At("solve", "component")
  \/ At("solve", "compose")

\* C15: failedConstraint is null after every scope exit and whenever an
\* attempt is about to start; when a call of solve finds it set on entry,
\* the failure happened in the scope of this very attempt, which began
\* without one; and once set it keeps the constraint it holds until a scope
\* exit clears it.
C15_FailureStaysInScope ==
  /\ [](/\ exitLog # <<>> => exitLog[1].post.failedConstraint = <<>>
        /\ AttemptStarts => cs.failedConstraint = <<>>
        /\ (At("solve", "entry") /\ cs.failedConstraint # <<>>) =>
              /\ entries # <<>>
              /\ entries[Len(entries)].failedConstraint = <<>>)
  /\ [][cs.failedConstraint # <<>> =>
          \/ cs'.failedConstraint = cs.failedConstraint
          \/ /\ cs'.failedConstraint = <<>>
             /\ Len(cs'.scopes) < Len(cs.scopes)]_vars

\* A binding attempt failed on a constraint and the next binding of the same
\* round is about to be tried.
C15_SiblingAfterFailure ==
  /\ At("tryTypeVariableBindings", "bind")
  /\ Frame.i > 1
  /\ Frame.i <= Len(Frame.bindings)
  /\ exitLog # <<>>
  /\ exitLog[1].failedConstraint # <<>>

\* C16 as stated: under GenericParameters, in every solution recorded, two
\* type variables of different equivalence classes that were bound to fresh
\* generic parameters have parameters of different indices.
C16_DistinctGenericParameters ==
  (allowFree = GenericParameters /\ event.kind = "finalize") =>
    \A v, w \in DOMAIN Recorded.typeBindings :
       (/\ getRepresentative(cs, v) # getRepresentative(cs, w)
        /\ Recorded.typeBindings[v] \in GenericParams
        /\ Recorded.typeBindings[w] \in GenericParams) =>
          Recorded.typeBindings[v] # Recorded.typeBindings[w]

\* The parts of the system an alternative of a disjunction starts from.
AlternativeStart(s) ==
  [store |-> s.store,
   TypeVariables |-> s.TypeVariables,
   CurrentScore |-> s.CurrentScore,
   resolvedOverloadSets |-> s.resolvedOverloadSets,
   Constraints |-> ToSet(s.Constraints)]

\* C17: whenever the loop over the alternatives of a disjunction is at the
\* head of an iteration, the substitution, the score, the resolved overloads
\* and the set of active constraints are those the first alternative started
\* from; anySolved starts false, becomes true exactly when the recursive
\* solve of an alternative succeeds, and the branching returns failure
\* exactly when anySolved is false.
C17_AlternativesIsolated ==
  /\ [](At("solveSimplified", "alt") =>
          AlternativeStart(cs) = AlternativeStart(Frame.start))
  /\ [][/\ (At("solveSimplified", "entry") /\ Len(stack') = Len(stack)
            /\ Frame'.pc = "alt") => ~Frame'.anySolved
        /\ At("solveSimplified", "alt_ret") =>
              /\ Frame'.anySolved = (Frame.anySolved \/ ~ret)
              /\ AlternativeStart(cs') = AlternativeStart(entries[Len(entries)])
        /\ (Len(stack') < Len(stack) /\ Frame.proc = "solveSimplified"
            /\ Frame.pc \in {"alt", "finish"}) =>
              ret' = ~Frame.anySolved]_vars

\* A second alternative is about to be tried after the first one bound type
\* variables, retired constraints and produced a solution.
C17_SecondAlternative ==
  /\ At("solveSimplified", "alt")
  /\ Frame.i = 2
  /\ ~StopsBefore(Frame)
  /\ Frame.anySolved
  /\ exitLog # <<>>
  /\ exitLog[1].saved # <<>>
  /\ exitLog[1].retired # <<>>

\* Some candidate of the current round that is not a literal default has
\* produced a solution.
NonLiteralSolved(f) == \E j \in f.solved : ~f.bindings[j][2]

\* C18: within a round of tryTypeVariableBindings, no literal default is
\* being solved while a candidate that is not a literal default has produced
\* a solution; when the loop reaches a literal default in that situation the
\* round ends there, with the system and the solution lists as they were.
C18_LiteralsSkipped ==
  /\ []((At("tryTypeVariableBindings", "bind_ret") /\ Frame.bindings[Frame.i][2]) =>
           ~NonLiteralSolved(Frame))
  /\ [][(/\ At("tryTypeVariableBindings", "bind")
         /\ Frame.i <= Len(Frame.bindings)
         /\ Frame.bindings[Frame.i][2]
         /\ NonLiteralSolved(Frame)) =>
           /\ stack' = SetFrame([Frame EXCEPT !.pc = "round_end",
                                              !.sawFirstLiteralConstraint = TRUE])
           /\ AlternativeStart(cs') = AlternativeStart(cs)
           /\ lists' = lists]_vars

\* The round stopped at a literal default after a candidate that is not one
\* had produced a solution.
C18_StoppedAtLiteral ==
  /\ At("tryTypeVariableBindings", "round_end")
  /\ Frame.i <= Len(Frame.bindings)
  /\ Frame.bindings[Frame.i][2]
  /\ NonLiteralSolved(Frame)

\* The types tried so far by the call of tryTypeVariableBindings in frame f,
\* at the end of a round.
TypesTried(f) == f.exploredTypes \cup CanonicalTypes(f.bindings)

\* The direct supertypes of a type that checkTypeOfBinding permits for the
\* variable of frame f.
PermittedSupertypes(s, f, type) ==
  {checkTypeOfBinding(s, f.tvc.TypeVar, enumerateDirectSupertypes(type)[j]) :
     j \in 1..Len(enumerateDirectSupertypes(type))} \ {None}

\* C19 as stated: when tryTypeVariableBindings gives up without a solution,
\* every permitted direct supertype of every type it tried, in the first
\* round or a later one, was itself offered as a candidate.
C19_SupertypesOfAllTried ==
  (/\ AtRoundEnd
   /\ ~Frame.anySolved
   /\ NextRound(cs, Frame).newBindings = <<>>) =>
     \A type \in TypesTried(Frame) :
       \A super \in PermittedSupertypes(cs, Frame, type) :
         getCanonicalType(super) \in TypesTried(Frame)

\* The list a ends the list b.
IsSuffix(a, b) ==
  Len(a) <= Len(b) /\ SubSeq(b, Len(b) - Len(a) + 1, Len(b)) = a

\* C20: when simplify() is called without a failed constraint and the
\* simplifier reports an error for a constraint of the worklist, that
\* constraint is recorded as failedConstraint, the worklist is emptied and
\* none of its items stays marked active, every constraint of the active
\* list is moved in front of the retired list, and solve returns failure.
C20_ErrorRetiresAll ==
  [][(/\ At("solve", "entry")
      /\ cs.failedConstraint = <<>>
      /\ cs'.failedConstraint # <<>>) =>
        /\ ret'
        /\ Len(cs'.failedConstraint) = 1
        /\ cs'.failedConstraint[1] \in ToSet(cs.Worklist)
        /\ cs'.Worklist = <<>>
        /\ cs'.active = {}
        /\ cs'.Constraints = <<>>
        /\ IsSuffix(cs.retiredConstraints, cs'.retiredConstraints)
        /\ ToSet(cs.Constraints) \subseteq ToSet(cs'.retiredConstraints)]_vars

\* simplify() failed on a constraint and retired, with it, a constraint that
\* was not solved and is still in the constraint graph.
C20_UnsolvedRetired ==
  /\ ret
  /\ cs.failedConstraint # <<>>
  /\ cs.Worklist = <<>>
  /\ cs.Constraints = <<>>
  /\ \E i \in 1..Len(cs.retiredConstraints) :
       /\ cs.retiredConstraints[i] # cs.failedConstraint[1]
       /\ cs.retiredConstraints[i] \in ToSet(cs.CG)

\* The constraints for which the simplifier reported the given kind.
Reported(reports, kind) ==
  {reports[i].constraint : i \in {j \in 1..Len(reports) : reports[j].kind = kind}}

\* The constraints retired by a step from system s to system t.
NewlyRetired(s, t) ==
  ToSet(SubSeq(t.retiredConstraints, 1,
               Len(t.retiredConstraints) - Len(s.retiredConstraints)))

\* C21 as stated: when simplify() returns success, the worklist is empty, no
\* constraint it processed is marked active, every constraint reported
\* Solved has left the constraint graph and has moved from the active list
\* to the retired list, and every constraint only ever reported Unsolved is
\* still in the active list.
C21_SuccessRetiresSolved ==
  (At("solve", "entry") /\ cs.failedConstraint = <<>>) =>
    \A r \in {simplify(cs)} :
      ~r.failed =>
        /\ r.s.Worklist = <<>>
        /\ \A i \in 1..Len(r.reports) : r.reports[i].constraint \notin r.s.active
        /\ IsSuffix(cs.retiredConstraints, r.s.retiredConstraints)
        /\ \A c \in Reported(r.reports, "Solved") :
             /\ c \notin ToSet(r.s.CG)
             /\ c \notin ToSet(r.s.Constraints)
             /\ c \in NewlyRetired(cs, r.s)
        /\ \A c \in Reported(r.reports, "Unsolved") \ Reported(r.reports, "Solved") :
             c \in ToSet(r.s.Constraints)

\* A call of simplify() is about to succeed after the simplifier reports
\* one constraint Solved and leaves another Unsolved.
C21_SolvedAndUnsolved ==
  /\ At("solve", "entry")
  /\ cs.failedConstraint = <<>>
  /\ \E r \in {simplify(cs)} :
       /\ ~r.failed
       /\ Reported(r.reports, "Solved") # {}
       /\ Reported(r.reports, "Unsolved") \ Reported(r.reports, "Solved") # {}

\* The frames of the calls of solve that are solving a component.
SolvingComponent ==
  {j \in 1..Len(stack) : stack[j].proc = "solve" /\ stack[j].pc = "component_ret"}

\* The constraints in the buckets of the components other than the one that
\* frame f is solving, whose own bucket is empty meanwhile.
OtherBuckets(f) ==
  UNION {ToSet(f.constraintBuckets[k]) : k \in 1..f.numComponents}

\* C22: while a component is being solved, TypeVariables holds no variable
\* assigned to a different component and the active list holds no constraint
\* of the bucket of a different component; when the component path of solve
\* returns, after a failed component or after the last combination,
\* TypeVariables is the list at the split and the active list holds the
\* constraints it held at the split, each once.
C22_ComponentFramed ==
  /\ [](\A j \in SolvingComponent :
          /\ \A v \in ToSet(cs.TypeVariables) :
               v \in DOMAIN stack[j].typeVarComponent =>
                 stack[j].typeVarComponent[v] = stack[j].component
          /\ ToSet(cs.Constraints) \cap OtherBuckets(stack[j]) = {}
          /\ OtherBuckets(stack[j]) \subseteq ToSet(stack[j].atSplit.Constraints))
  /\ [][(/\ Len(stack') < Len(stack)
         /\ Frame.proc = "solve"
         /\ Frame.pc \in {"component_ret", "compose_next"}) =>
           /\ cs'.TypeVariables = Frame.atSplit.TypeVariables
           /\ ToSet(cs'.Constraints) = ToSet(Frame.atSplit.Constraints)
           /\ Len(cs'.Constraints) = Len(Frame.atSplit.Constraints)]_vars

\* The second component of a split is being solved: a variable of the first
\* component is hidden and the bucket of the first component is set aside.
C22_SecondComponent ==
  /\ SolvingComponent # {}
  /\ \E j \in SolvingComponent :
       /\ stack[j].component >= 1
       /\ Len(cs.TypeVariables) < Len(stack[j].atSplit.TypeVariables)
       /\ stack[j].constraintBuckets[1] # <<>>

\* The parts of the system that applying a combination of partial solutions
\* changes.
CombinationStart(s) ==
  [store |-> s.store,
   TypeVariables |-> s.TypeVariables,
   CurrentScore |-> s.CurrentScore,
   resolvedOverloadSets |-> s.resolvedOverloadSets,
   constraintRestrictions |-> s.constraintRestrictions]

\* C23: the composition loop applies each combination of one partial
\* solution per component once, as many combinations as the product of the
\* sizes of the lists, and returns after the last one; every combination
\* after the first starts from the bindings, the type variables, the score,
\* the resolved overloads and the restrictions the one before it started
\* from.
C23_EveryCombinationOnce ==
  /\ []((stack # <<>> /\ Frame.proc = "solve"
         /\ Frame.pc \in {"compose", "compose_next"}) =>
          /\ \A i, j \in 1..Len(Frame.tried) : i # j => Frame.tried[i] # Frame.tried[j]
          /\ ToSet(Frame.tried) \subseteq Combinations(Frame, lists)
          /\ (Frame.pc = "compose" /\ Frame.tried # <<>>) =>
                CombinationStart(cs) = CombinationStart(exitLog[1].pre))
  /\ [][(/\ Len(stack') < Len(stack)
         /\ Frame.proc = "solve"
         /\ Frame.pc = "compose_next") =>
           /\ ToSet(Frame.tried) = Combinations(Frame, lists)
           /\ Len(Frame.tried) = Cardinality(Combinations(Frame, lists))]_vars

\* The loop has applied every combination of three lists with two or more
\* partial solutions each.
C23_AllCombinationsTried ==
  /\ At("solve", "compose_next")
  /\ Frame.numComponents = 3
  /\ \A k \in 0..2 : Len(lists[PartialList(Frame, k)]) >= 2
  /\ ToSet(Frame.tried) = Combinations(Frame, lists)

\* C24: when solveSimplified branches on a disjunction, no other active
\* disjunction has fewer alternatives, unless the chosen one has exactly two
\* and the smaller one comes after it in the list of disjunctions, where the
\* scan did not look.
C24_SmallestDisjunction ==
  [][(/\ At("solveSimplified", "entry")
      /\ Len(stack') = Len(stack)
      /\ Frame'.pc = "alt") =>
        \E k \in 1..Len(Collected.disjunctions) :
          /\ Collected.disjunctions[k] = Frame'.disjunction
          /\ \A j \in 1..Len(Collected.disjunctions) :
               \/ Len(Frame'.disjunction.nested) <=
                    Len(Collected.disjunctions[j].nested)
               \/ /\ Len(Frame'.disjunction.nested) = 2
                  /\ j > k]_vars

\* Branching has begun on a disjunction that is not the first of the active
\* ones: the scan went past a larger disjunction.
C24_LaterDisjunctionChosen ==
  /\ At("solveSimplified", "alt")
  /\ Frame.i = 1
  /\ Frame.afterDisjunction = <<>>
  /\ cs.Constraints # <<>>
  /\ \E j \in 1..Len(cs.Constraints) :
       /\ cs.Constraints[j].kind = "Disjunction"
       /\ Len(cs.Constraints[j].nested) > Len(Frame.disjunction.nested)

\* C25: when the recursive solve of an alternative succeeds and the
\* alternative is restricted to TupleToTuple, or is a Conversion of a
\* disjunction located at an interpolation argument, the loop ends there and
\* the next step returns from the branching; and an alternative is attempted
\* only if no alternative restricted to OptionalToOptional, at its position
\* or before it, comes after an alternative that yielded a solution.
C25_ShortCircuit ==
  [][/\ (/\ At("solveSimplified", "alt_ret")
         /\ ~ret
         /\ \/ Frame.disjunction.nested[Frame.i].restriction = "TupleToTuple"
            \/ /\ Frame.disjunction.locator = "InterpolationArgument"
               /\ Frame.disjunction.nested[Frame.i].kind = "Conversion") =>
           Frame'.pc = "finish"
     /\ At("solveSimplified", "finish") => Len(stack') < Len(stack)
     /\ (At("solveSimplified", "alt") /\ Len(stack') > Len(stack)) =>
           \A j \in 1..Frame.i :
             Frame.disjunction.nested[j].restriction = "OptionalToOptional" =>
               \A k \in Frame.solved : k >= j]_vars

\* After a solution, the enumeration has reached an alternative restricted
\* to OptionalToOptional and ends there, with an alternative left after it.
C25_StoppedAtOptional ==
  /\ At("solveSimplified", "alt")
  /\ Frame.anySolved
  /\ Frame.i < Len(Frame.disjunction.nested)
  /\ Frame.disjunction.nested[Frame.i].restriction = "OptionalToOptional"

\* C26 as stated: when solveSimplified neither binds a variable nor branches
\* on a disjunction, it accepts the system (finalizes it, appends the
\* solution and returns success) if free variables are allowed, every
\* active constraint is a ConformsTo, SelfObjectOfProtocol or TypeMember
\* constraint and the score is not pruned; otherwise it returns failure and
\* appends nothing.
C26_ResidualAccepted ==
  [][(At("solveSimplified", "entry") /\ Len(stack') < Len(stack)) =>
       IF /\ allowFree # Disallow
          /\ ~anyNonConformanceConstraints(cs)
          /\ ~worseThanBestSolution(cs)
       THEN /\ ~ret'
            /\ lists' = [lists EXCEPT ![Frame.out] =
                           Append(@, finalize(cs, allowFree).solution)]
       ELSE /\ ret'
            /\ lists' = lists]_vars

\* A system whose remaining constraints are all conformances was accepted
\* with a free type variable.
C26_ConformanceLeftOver ==
  /\ event.kind = "finalize"
  /\ event.path = "residual"
  /\ cs.Constraints # <<>>
  /\ ~ret

\* The frames of solveSimplified that are exploring the alternatives of their
\* disjunction (lines 1285-1357).
Branching ==
  {j \in 1..Len(stack) : /\ stack[j].proc = "solveSimplified"
                         /\ stack[j].pc \in {"alt", "alt_ret", "finish"}}

Occurrences(list, c) == Cardinality({i \in 1..Len(list) : list[i] = c})

\* C27: while the alternatives of a disjunction are explored, at any depth of
\* the search below it, the disjunction is in neither the constraint list nor
\* the graph; when the branching returns, by the end of the loop or by one of
\* its breaks, the disjunction is in the list once and in the graph once.
C27_DisjunctionDetached ==
  /\ [](\A j \in Branching :
         /\ Occurrences(cs.Constraints, stack[j].disjunction) = 0
         /\ Occurrences(cs.CG, stack[j].disjunction) = 0)
  /\ [][(Len(stack) \in Branching /\ stack' = Pop)
         => /\ Occurrences(cs'.Constraints, Frame.disjunction) = 1
            /\ Occurrences(cs'.CG, Frame.disjunction) = 1]_vars

\* A nested search left its loop by the break after a tuple-to-tuple
\* conversion, while the disjunction above it is still being explored.
C27_NestedBreak ==
  /\ At("solveSimplified", "finish")
  /\ Cardinality(Branching) >= 2
  /\ \A j \in Branching : stack[j].disjunction \notin ToSet(cs.Constraints)

\* The calls of tryTypeVariableBindings in progress.
BindingCalls ==
  {j \in 1..Len(stack) : stack[j].proc = "tryTypeVariableBindings"}

\* C28: in a call of tryTypeVariableBindings the candidates of all rounds so
\* far, the initial list and the lists of the later rounds, have pairwise
\* different canonical types.
C28_CandidatesDistinct ==
  \A j \in BindingCalls :
     \A a, b \in 1..Len(stack[j].offered) :
        a # b => getCanonicalType(stack[j].offered[a][1])
                   # getCanonicalType(stack[j].offered[b][1])

\* The first round failed for a variable whose default literal type was left
\* out because a bound is the same type under an alias, and whose alternative
\* literal type was left out because the first round had tried it.
C28_RepeatsDropped ==
  /\ AtRoundEnd
  /\ ~Frame.anySolved
  /\ Frame.tryCount = 0
  /\ \E c \in ToSet(Frame.tvc.ConformsToConstraints) :
        \E i \in 1..Len(Frame.bindings) :
           /\ Frame.bindings[i][1] # getDefaultType(c.second)
           /\ getCanonicalType(Frame.bindings[i][1])
                = getCanonicalType(getDefaultType(c.second))
  /\ AlternativeCandidates(Frame.tvc) # <<>>
  /\ ToSet(AlternativeCandidates(Frame.tvc)) \subseteq CanonicalTypes(Frame.bindings)

\* The type that line 837 binds to the variable for the candidate at hand,
\* before a literal default is opened.
BoundType(f) ==
  IF canBindToLValue(f.tvc.TypeVar) THEN f.bindings[f.i][1]
  ELSE getRValueType(f.bindings[f.i][1])

\* C29: the type of every Bind constraint that tryTypeVariableBindings emits
\* for a candidate taken from a bound or from the supertypes, simplified, does
\* not reference the variable; and no variable has a fixed type that
\* mentions the variable.
C29_OccursCheck ==
  /\ [](\A v \in AllTypeVars :
         cs.store[v].fixed # None => v \notin getTypeVariables(cs.store[v].fixed))
  /\ [][(BindingTry /\ ~Frame.bindings[Frame.i][2])
         => Frame.tvc.TypeVar
              \notin getTypeVariables(simplifyType(cs, BoundType(Frame)))]_vars

\* The variable has a bound that references it, and was bound to the element
\* type of a tuple above it.
C29_SelfReferenceSkipped ==
  /\ Len(stack) >= 2
  /\ \E f \in {stack[Len(stack) - 1]} :
        /\ f.proc = "tryTypeVariableBindings"
        /\ f.pc = "bind_ret"
        /\ \E i \in 1..Len(f.tvc.Above) :
              f.tvc.TypeVar \in getTypeVariables(f.tvc.Above[i][2])
        /\ \E i \in 1..Len(f.tvc.Above) :
              /\ f.tvc.Above[i][2] \in TupleTypes
              /\ getElementType(f.tvc.Above[i][2]) = f.bindings[f.i][1]
        /\ getFixedType(cs, f.tvc.TypeVar) = f.bindings[f.i][1]

\* C30: no candidate that comes from a bound or from the supertypes is a type
\* whose rvalue is a bare type variable.
C30_NoBareVariable ==
  \A j \in BindingCalls :
     \A i \in 1..Len(stack[j].offered) :
        ~stack[j].offered[i][2]
          => ~isTypeVariable(getRValueType(stack[j].offered[i][1]))

\* The step of solveSimplified that hands a variable to
\* tryTypeVariableBindings (lines 1208-1213).
ChoosesVariable ==
  /\ At("solveSimplified", "entry")
  /\ Len(stack') = Len(stack)
  /\ stack'[Len(stack')].proc = "tryTypeVariableBindings"

\* The three flags of a binding set as one number, false before true.
FlagRank(b) ==
  (IF b.FullyBound THEN 4 ELSE 0) + (IF b.InvolvesTypeVariables THEN 2 ELSE 0)
    + (IF b.HasLiteralBindings THEN 1 ELSE 0)

\* x is strictly better than y: smaller flags, or equal flags and more
\* candidates.
StrictlyBetter(x, y) ==
  \/ FlagRank(x) < FlagRank(y)
  \/ FlagRank(x) = FlagRank(y) /\ Len(x.Bindings) > Len(y.Bindings)

\* C31: the variable solveSimplified chooses has a non-empty candidate list,
\* and no other variable with a non-empty list is strictly better in the
\* order on (FullyBound, InvolvesTypeVariables, HasLiteralBindings) with
\* false before true and, the flags being equal, the larger number of
\* candidates first.
C31_BestVariableChosen ==
  [][ChoosesVariable =>
       LET chosen == getPotentialBindings(cs, stack'[Len(stack')].tvc)
       IN /\ chosen.Bindings # <<>>
          /\ stack'[Len(stack')].bindings = chosen.Bindings
          /\ \A i \in 1..Len(Collected.typeVarConstraints) :
               LET other == getPotentialBindings(cs, Collected.typeVarConstraints[i])
               IN other.Bindings # <<>> => ~StrictlyBetter(other, chosen)]_vars

\* A variable has just been chosen over another with the same flags and a
\* shorter, non-empty candidate list.
C31_LongerListChosen ==
  /\ At("tryTypeVariableBindings", "bind")
  /\ Frame.tryCount = 0 /\ Frame.i = 1
  /\ \E i \in 1..Len(Collected.typeVarConstraints) :
       LET other == getPotentialBindings(cs, Collected.typeVarConstraints[i])
           chosen == getPotentialBindings(cs, Frame.tvc)
       IN /\ Collected.typeVarConstraints[i].TypeVar # Frame.tvc.TypeVar
          /\ FlagRank(other) = FlagRank(chosen)
          /\ other.Bindings # <<>>
          /\ Len(other.Bindings) < Len(Frame.bindings)

\* The frames of the calls of solve, solveSimplified and
\* tryTypeVariableBindings that have not returned.
OpenCalls == {j \in 1..Len(stack) : stack[j].proc # "top"}

\* This step is the return of the innermost call.
Returns == Len(stack') = Len(stack) - 1

\* C32: a call of solve or solveSimplified returns success (false) exactly
\* when the list it was given is longer at the return than it was at the
\* call; while the call runs the list never gets shorter than it was at the
\* call.
C32_SuccessIffAppended ==
  /\ [](\A j \in OpenCalls : Len(lists[stack[j].out]) >= stack[j].sizeAtCall)
  /\ [][Returns =>
          (ret' = FALSE <=> Len(lists'[Frame.out]) > Frame.sizeAtCall)]_vars

\* A call given a list that already held a solution has just returned
\* success, and the list holds a further solution.
C32_SecondSuccess ==
  /\ At("solveSimplified", "alt_ret")
  /\ ~ret
  /\ Frame.anySolved
  /\ Len(lists[Frame.out]) >= 2

\* C33: when simplify is entered, every constraint of the worklist is marked
\* active and is in the active constraint list.
C33_WorklistCurrent ==
  (At("solve", "entry") /\ cs.failedConstraint = <<>>) =>
    \A i \in 1..Len(cs.Worklist) :
       /\ cs.Worklist[i] \in cs.active
       /\ cs.Worklist[i] \in ToSet(cs.Constraints)

\* The system finalize is called on by the step that is about to be taken:
\* the simplified system at a leaf, the system with the partial solutions
\* applied in the composition loop, the current system otherwise.
FinalizeArgument ==
  IF At("solve", "entry") THEN Simplified.s
  ELSE IF At("solve", "compose") THEN ApplySolutions(EnterScope(cs), Frame, lists, 1)
  ELSE cs

ComponentSolved == At("solve", "component_ret") /\ ~ret

\* C35: when the current score is taken off the partial solutions of a
\* component, the scope of the component has ended and CurrentScore is the
\* score at the entry of that scope; every counter of every partial solution
\* is at least the counter of CurrentScore, and every partial solution kept
\* has the non-negative difference as its score.
C35_NoUnderflow ==
  [][ComponentSolved =>
       LET p == PartialList(Frame, Frame.component)
           after == ExitScope(cs).CurrentScore
       IN /\ after = entries[Len(entries)].CurrentScore
          /\ cs'.CurrentScore = after
          /\ \A i \in 1..Len(lists[p]) : Dominates(lists[p][i].score, after)
          /\ \A j \in 1..Len(lists'[p]) :
               /\ Dominates(lists'[p][j].score, ZeroScore)
               /\ \E i \in 1..Len(lists[p]) :
                    lists[p][i] = [lists'[p][j] EXCEPT !.score = ScoreAdd(@, after)]]_vars

\* A component was solved under a score that was not zero, and its partial
\* solution keeps a score of its own that is not zero either.
C35_ContributionKept ==
  /\ stack # <<>>
  /\ Frame.proc = "solve"
  /\ Frame.pc \in {"component", "compose"}
  /\ Frame.component >= 1
  /\ cs.CurrentScore # ZeroScore
  /\ \E i \in 1..Len(lists[PartialList(Frame, Frame.component - 1)]) :
       lists[PartialList(Frame, Frame.component - 1)][i].score # ZeroScore

====
